---------------------------- MODULE Spec2Model ----------------------------
(***************************************************************************)
(* A model of the solar-eclipse search engine and of the calendar          *)
(* arithmetic it is built on (pedatetime.py, psefinder.py, psenarrow.py).  *)
(*                                                                         *)
(* An instant is the record of the six integer fields of                   *)
(* pedatetime.datetime.  Every method of the class is an operator that     *)
(* maps the instant before the call to the instant after it, and every    *)
(* while/for loop of the source is a RECURSIVE operator that performs one  *)
(* iteration of the loop per unfolding.                                    *)
(*                                                                         *)
(* The module holds several specifications over the same variables:       *)
(*   Spec           single add_*/sub_* steps applied to one instant        *)
(*   SpecRoundTrip  add_seconds(n) followed by sub_seconds(n)              *)
(*   SpecDiff       datetime - datetime, then datetime + timedelta         *)
(*   SpecNorm       normalize() applied to arbitrary integer fields        *)
(*   SpecFinder     the coarse loop of psefinder.sefinder                  *)
(*   SpecNarrow     the one-second loop of psenarrow.senarrow              *)
(*   SpecCtor       the constructors of datetime and timedelta             *)
(*   SpecCoords     the two shadow-axis projectors                         *)
(*   SpecGamma      psegam.gamma and the classification of psecentral      *)
(*   SpecContact    psestartendtime.startendtime                           *)
(*   SpecMain       the contacts and the path sweep of main                *)
(*   SpecMu         psebessel.compute_mu                                   *)
(*   SpecFit        the cubic least-squares fits of psebessel              *)
(*   SpecReference  the reference hour of main                             *)
(*   SpecUnits      one add_/sub_ step of a unit and its seconds           *)
(*   SpecCounts     the counted steps and datetime + timedelta             *)
(*   SpecLeap       one day around the end of February                     *)
(*   SpecAlias      the instants as objects of a heap                      *)
(* A specification leaves the variables of the other ones at their idle    *)
(* values.                                                                 *)
(***************************************************************************)
EXTENDS Integers, Sequences, FiniteSets, TLC

VARIABLES
    \* ---- pedatetime.datetime under single steps (Spec)
    d,          \* the instant being mutated
    prev,       \* the instant before the last call
    op,         \* the last method called on d ("new" after construction)
    nops,       \* how many methods have been called
    \* ---- add_seconds(n) ; sub_seconds(n) (SpecRoundTrip)
    rt,         \* [pc, d, d0, n, i]: the loops' position and the instant
    \* ---- datetime - datetime, then datetime + timedelta (SpecDiff)
    df,         \* [pc, self, other, a, b, seconds, td, result]
    \* ---- normalize() on arbitrary fields (SpecNorm)
    nm,         \* [pc, raw, t]: the fields before and after normalize()
    \* ---- psefinder.sefinder (SpecFinder)
    fd,         \* the arguments, the locals and the position of sefinder
    \* ---- psenarrow.senarrow (SpecNarrow)
    nw,         \* the arguments, the locals and the position of senarrow
    \* ---- datetime(...) and timedelta(...) constructors (SpecCtor)
    ct,         \* [pc, cls, args, obj]: the call and what it produced
    \* ---- psecentralcoords.coords / pcentercoords.coords (SpecCoords)
    pj,         \* the evaluated elements and the result of both projectors
    \* ---- psegam.gamma, psecentral.central / exist (SpecGamma)
    gm,         \* the evaluated elements, gamma and the classification
    \* ---- psestartendtime.startendtime (SpecContact)
    cs,         \* the polynomials, the brackets and the outcome of the solves
    \* ---- the contacts and the path sweep of main (SpecMain)
    mn,         \* the contact times, the cursor and the collected points
    \* ---- psebessel.compute_mu (SpecMu)
    hu,         \* the two hour angles, their difference and the rate
    \* ---- psebessel.find_besselian_polynomial (SpecFit)
    ft,         \* the cubic, its five samples and the fitted coefficients
    \* ---- the reference hour of main (SpecReference)
    rf,         \* the maximum, the reference instant and their difference
    \* ---- a coarse step against as many single seconds (SpecUnits)
    eq,         \* the instant stepped once and the instant stepped by seconds
    \* ---- the counted steps and datetime + timedelta (SpecCounts)
    cn,         \* the instant, the count and the instant after the call
    \* ---- days around the end of February (SpecLeap)
    lp,         \* the date and the date one day later
    \* ---- operands and arguments after a call (SpecAlias)
    al          \* the objects of the caller before and after the call

calVars == <<d, prev, op, nops>>
engineVars == <<d, prev, op, nops, rt, df, nm, fd, nw>>
geoVars == <<ct, pj, gm, cs, mn>>
auxVars == <<hu, ft, rf, eq, cn, lp, al>>
vars == <<d, prev, op, nops, rt, df, nm, fd, nw, ct, pj, gm, cs, mn,
          hu, ft, rf, eq, cn, lp, al>>

(***************************************************************************)
(* Bounds of the model.                                                    *)
(***************************************************************************)
\* Calls made on one instant in Spec.
MaxOps == 3
\* Largest count n handed to add_seconds / sub_seconds in SpecRoundTrip.
MaxCount == 6
\* Seconds taken on each side of a day boundary for the operands of SpecDiff.
MaxSpan == 3
\* Coarse samples taken by one run of sefinder in SpecFinder.
MaxCoarse == 8
\* One-second samples of the longest window of SpecNarrow.
MaxWindow == 3

(***************************************************************************)
(* pedatetime.py: the calendar.                                            *)
(***************************************************************************)
\* datetime.__init__ / datetime.copy: the six fields.
datetime(y, mo, dd, h, mi, s) ==
    [year |-> y, month |-> mo, day |-> dd, hour |-> h, minute |-> mi, second |-> s]

\* The check of datetime.__init__: every component is an int.
IsInstant(t) ==
    t \in [year : Int, month : Int, day : Int, hour : Int, minute : Int, second : Int]

copy(t) == datetime(t.year, t.month, t.day, t.hour, t.minute, t.second)

month_lengths == <<31, 28, 31, 30, 31, 30, 31, 31, 30, 31, 30, 31>>

\* A mutation of the leap test: the Julian rule for the years up to 1582.
leap_julian_before_cutover(year) ==
    IF year <= 1582 THEN year % 4 = 0
    ELSE year % 4 = 0 /\ (year % 100 # 0 \/ year % 400 = 0)

\* The leap test of max_day_in_month (Gregorian rule, every year).
leap(year) == year % 4 = 0 /\ (year % 100 # 0 \/ year % 400 = 0)

max_day_in_month(year, month) ==
    IF month < 1 \/ month > 12 THEN 0
    ELSE IF month = 2 /\ leap(year) THEN 29
    ELSE month_lengths[month]

\* normalize(), one operator per while loop, in the order of the source.
RECURSIVE NormSecondLow(_)
NormSecondLow(t) ==
    IF t.second < 0
    THEN NormSecondLow([t EXCEPT !.second = @ + 60, !.minute = @ - 1])
    ELSE t

RECURSIVE NormSecondHigh(_)
NormSecondHigh(t) ==
    IF t.second > 59
    THEN NormSecondHigh([t EXCEPT !.second = @ - 60, !.minute = @ + 1])
    ELSE t

RECURSIVE NormMinuteLow(_)
NormMinuteLow(t) ==
    IF t.minute < 0
    THEN NormMinuteLow([t EXCEPT !.minute = @ + 60, !.hour = @ - 1])
    ELSE t

RECURSIVE NormMinuteHigh(_)
NormMinuteHigh(t) ==
    IF t.minute > 59
    THEN NormMinuteHigh([t EXCEPT !.minute = @ - 60, !.hour = @ + 1])
    ELSE t

RECURSIVE NormHourLow(_)
NormHourLow(t) ==
    IF t.hour < 0
    THEN NormHourLow([t EXCEPT !.hour = @ + 24, !.day = @ - 1])
    ELSE t

RECURSIVE NormHourHigh(_)
NormHourHigh(t) ==
    IF t.hour > 23
    THEN NormHourHigh([t EXCEPT !.hour = @ - 24, !.day = @ + 1])
    ELSE t

\* while self.day < 1: borrow the previous month's days.
RECURSIVE NormDayLow(_)
NormDayLow(t) ==
    IF t.day < 1
    THEN LET m1 == t.month - 1
             m2 == IF m1 < 1 THEN 12 ELSE m1
             y2 == IF m1 < 1 THEN t.year - 1 ELSE t.year
         IN  NormDayLow([t EXCEPT !.month = m2, !.year = y2,
                                  !.day = @ + max_day_in_month(y2, m2)])
    ELSE t

\* while self.day > max_day_in_month(...): carry into the next month.
RECURSIVE NormDayHigh(_)
NormDayHigh(t) ==
    IF t.day > max_day_in_month(t.year, t.month)
    THEN LET d2 == t.day - max_day_in_month(t.year, t.month)
             m1 == t.month + 1
             m2 == IF m1 > 12 THEN 1 ELSE m1
             y2 == IF m1 > 12 THEN t.year + 1 ELSE t.year
         IN  NormDayHigh([t EXCEPT !.day = d2, !.month = m2, !.year = y2])
    ELSE t

RECURSIVE NormMonthLow(_)
NormMonthLow(t) ==
    IF t.month < 1
    THEN NormMonthLow([t EXCEPT !.month = @ + 12, !.year = @ - 1])
    ELSE t

RECURSIVE NormMonthHigh(_)
NormMonthHigh(t) ==
    IF t.month > 12
    THEN NormMonthHigh([t EXCEPT !.month = @ - 12, !.year = @ + 1])
    ELSE t

normalize(t) ==
    NormMonthHigh(NormMonthLow(
        NormDayHigh(NormDayLow(
            NormHourHigh(NormHourLow(
                NormMinuteHigh(NormMinuteLow(
                    NormSecondHigh(NormSecondLow(t))))))))))

\* The ten days 5..14 October 1582.
InCutoverGap(t) == t.year = 1582 /\ t.month = 10 /\ 5 <= t.day /\ t.day <= 14

\* A mutation of adjust_gregorian: the direction of travel is ignored.
adjust_gregorian_forward_only(t, adding) ==
    IF InCutoverGap(t) THEN [t EXCEPT !.day = 15] ELSE t

\* A mutation of adjust_gregorian: the gap is not skipped.
adjust_gregorian_none(t, adding) == t

adjust_gregorian(t, adding) ==
    IF adding
    THEN IF InCutoverGap(t) THEN [t EXCEPT !.day = 15] ELSE t
    ELSE IF InCutoverGap(t) THEN [t EXCEPT !.day = 4] ELSE t

\* A mutation of add_second: the cutover adjustment is forgotten.
add_second_unadjusted(t) == normalize([t EXCEPT !.second = @ + 1])

add_second(t) == adjust_gregorian(normalize([t EXCEPT !.second = @ + 1]), TRUE)
\* A mutation of add_minute: the cutover adjustment is forgotten.
add_minute_unadjusted(t) == normalize([t EXCEPT !.minute = @ + 1])

add_minute(t) == adjust_gregorian(normalize([t EXCEPT !.minute = @ + 1]), TRUE)
add_hour(t) == adjust_gregorian(normalize([t EXCEPT !.hour = @ + 1]), TRUE)
add_day(t) == adjust_gregorian(normalize([t EXCEPT !.day = @ + 1]), TRUE)

sub_second(t) == adjust_gregorian(normalize([t EXCEPT !.second = @ - 1]), FALSE)
sub_minute(t) == adjust_gregorian(normalize([t EXCEPT !.minute = @ - 1]), FALSE)
sub_hour(t) == adjust_gregorian(normalize([t EXCEPT !.hour = @ - 1]), FALSE)
sub_day(t) == adjust_gregorian(normalize([t EXCEPT !.day = @ - 1]), FALSE)

\* The repeated steps: for _ in range(n): self.add_second() and the like,
\* with no iteration when n <= 0.  Each iteration is evaluated before the
\* next one starts (the CASE asks for its value), as a loop does.
RECURSIVE add_seconds(_, _)
add_seconds(t, n) ==
    IF n <= 0 THEN t
    ELSE LET after == add_second(t)
         IN  CASE IsInstant(after) -> add_seconds(after, n - 1)

RECURSIVE add_minutes(_, _)
add_minutes(t, n) ==
    IF n <= 0 THEN t
    ELSE LET after == add_minute(t)
         IN  CASE IsInstant(after) -> add_minutes(after, n - 1)

RECURSIVE add_hours(_, _)
add_hours(t, n) ==
    IF n <= 0 THEN t
    ELSE LET after == add_hour(t)
         IN  CASE IsInstant(after) -> add_hours(after, n - 1)

\* A mutation of add_days: a negative count is applied as so many sub_day.
RECURSIVE add_days_signed(_, _)
add_days_signed(t, n) ==
    IF n = 0 THEN t
    ELSE IF n > 0 THEN add_days_signed(add_day(t), n - 1)
    ELSE add_days_signed(sub_day(t), n + 1)

RECURSIVE add_days(_, _)
add_days(t, n) ==
    IF n <= 0 THEN t
    ELSE LET after == add_day(t)
         IN  CASE IsInstant(after) -> add_days(after, n - 1)

RECURSIVE sub_seconds(_, _)
sub_seconds(t, n) ==
    IF n <= 0 THEN t
    ELSE LET after == sub_second(t)
         IN  CASE IsInstant(after) -> sub_seconds(after, n - 1)

RECURSIVE sub_minutes(_, _)
sub_minutes(t, n) ==
    IF n <= 0 THEN t
    ELSE LET after == sub_minute(t)
         IN  CASE IsInstant(after) -> sub_minutes(after, n - 1)

RECURSIVE sub_hours(_, _)
sub_hours(t, n) ==
    IF n <= 0 THEN t
    ELSE LET after == sub_hour(t)
         IN  CASE IsInstant(after) -> sub_hours(after, n - 1)

RECURSIVE sub_days(_, _)
sub_days(t, n) ==
    IF n <= 0 THEN t
    ELSE LET after == sub_day(t)
         IN  CASE IsInstant(after) -> sub_days(after, n - 1)

\* timedelta.__init__: the duration is its total of seconds.
timedelta(days, hours, minutes, seconds) ==
    days * 86400 + hours * 3600 + minutes * 60 + seconds

\* A mutation of datetime.__add__: a negative duration is handed to
\* add_seconds, which then does nothing.
dt_add_forward_only(t, td) == add_seconds(copy(t), td)

\* A mutation of datetime.__add__: a negative duration is applied forward
\* by its magnitude.
dt_add_magnitude(t, td) == add_seconds(copy(t), IF td >= 0 THEN td ELSE -td)

\* datetime.__add__(timedelta): on a copy, forward or backward by seconds.
dt_add(t, td) ==
    IF td >= 0 THEN add_seconds(copy(t), td) ELSE sub_seconds(copy(t), -td)

\* Comparisons: lexicographic over (year, month, day, hour, minute, second).
dt_eq(a, b) ==
    /\ a.year = b.year /\ a.month = b.month /\ a.day = b.day
    /\ a.hour = b.hour /\ a.minute = b.minute /\ a.second = b.second

dt_lt(a, b) ==
    \/ a.year < b.year
    \/ a.year = b.year /\ a.month < b.month
    \/ a.year = b.year /\ a.month = b.month /\ a.day < b.day
    \/ a.year = b.year /\ a.month = b.month /\ a.day = b.day /\ a.hour < b.hour
    \/ a.year = b.year /\ a.month = b.month /\ a.day = b.day /\ a.hour = b.hour
       /\ a.minute < b.minute
    \/ a.year = b.year /\ a.month = b.month /\ a.day = b.day /\ a.hour = b.hour
       /\ a.minute = b.minute /\ a.second < b.second

dt_le(a, b) == dt_eq(a, b) \/ dt_lt(a, b)
dt_gt(a, b) == ~ dt_le(a, b)
dt_ge(a, b) == ~ dt_lt(a, b)

(***************************************************************************)
(* The instants the specifications start from: canonical instants around   *)
(* the 1582 cutover, month ends, leap days and year ends.                  *)
(***************************************************************************)
EdgeDates ==
    { <<1582, 10, 3>>, <<1582, 10, 4>>, <<1582, 10, 15>>, <<1582, 10, 16>>,
      <<1582, 9, 30>>, <<1582, 11, 1>>, <<1582, 12, 31>>, <<1583, 1, 1>>,
      <<1900, 2, 28>>, <<1900, 3, 1>>, <<2000, 2, 28>>, <<2000, 2, 29>>,
      <<2000, 3, 1>>, <<2024, 2, 28>>, <<2024, 2, 29>>, <<2024, 3, 1>>,
      <<2023, 12, 31>>, <<2024, 1, 1>>, <<2024, 4, 30>>, <<2024, 5, 1>>,
      <<0, 1, 1>>, <<-1, 12, 31>> }

EdgeInstants ==
    { datetime(dte[1], dte[2], dte[3], h, mi, s) :
        dte \in EdgeDates, h \in {0, 23}, mi \in {0, 59}, s \in {0, 58, 59} }

\* Normalized fields and a date outside the cutover gap.
Canonical(t) ==
    /\ 0 <= t.second /\ t.second <= 59
    /\ 0 <= t.minute /\ t.minute <= 59
    /\ 0 <= t.hour /\ t.hour <= 23
    /\ 1 <= t.month /\ t.month <= 12
    /\ 1 <= t.day /\ t.day <= max_day_in_month(t.year, t.month)
    /\ ~ InCutoverGap(t)

NoInstant == datetime(0, 0, 0, 0, 0, 0)

(***************************************************************************)
(* Idle values of each group of variables.                                 *)
(***************************************************************************)
CalIdle == d = NoInstant /\ prev = NoInstant /\ op = "idle" /\ nops = 0
RtIdle == rt = [pc |-> "idle"]
DfIdle == df = [pc |-> "idle"]
NmIdle == nm = [pc |-> "idle"]
FdIdle == fd = [pc |-> "idle"]
NwIdle == nw = [pc |-> "idle"]
CtIdle == ct = [pc |-> "idle"]
PjIdle == pj = [pc |-> "idle"]
GmIdle == gm = [pc |-> "idle"]
CsIdle == cs = [pc |-> "idle"]
MnIdle == mn = [pc |-> "idle"]
EngineIdle == CalIdle /\ RtIdle /\ DfIdle /\ NmIdle /\ FdIdle /\ NwIdle
GeoIdle == CtIdle /\ PjIdle /\ GmIdle /\ CsIdle /\ MnIdle
HuIdle == hu = [pc |-> "idle"]
FtIdle == ft = [pc |-> "idle"]
RfIdle == rf = [pc |-> "idle"]
EqIdle == eq = [pc |-> "idle"]
CnIdle == cn = [pc |-> "idle"]
LpIdle == lp = [pc |-> "idle"]
AlIdle == al = [pc |-> "idle"]
AuxIdle == HuIdle /\ FtIdle /\ RfIdle /\ EqIdle /\ CnIdle /\ LpIdle /\ AlIdle

(***************************************************************************)
(* Spec: single steps on one instant.                                      *)
(***************************************************************************)
CalInit ==
    /\ d \in EdgeInstants
    /\ prev = d
    /\ op = "new"
    /\ nops = 0
    /\ RtIdle /\ DfIdle /\ NmIdle /\ FdIdle /\ NwIdle /\ GeoIdle /\ AuxIdle

Call(name, after) ==
    /\ nops < MaxOps
    /\ prev' = d
    /\ d' = after
    /\ op' = name
    /\ nops' = nops + 1
    /\ UNCHANGED <<rt, df, nm, fd, nw, geoVars, auxVars>>

AddSecond == Call("add_second", add_second(d))
AddMinute == Call("add_minute", add_minute(d))
AddHour == Call("add_hour", add_hour(d))
AddDay == Call("add_day", add_day(d))
SubSecond == Call("sub_second", sub_second(d))
SubMinute == Call("sub_minute", sub_minute(d))
SubHour == Call("sub_hour", sub_hour(d))
SubDay == Call("sub_day", sub_day(d))

Init == CalInit
Next ==
    \/ AddSecond \/ AddMinute \/ AddHour \/ AddDay
    \/ SubSecond \/ SubMinute \/ SubHour \/ SubDay
Spec == Init /\ [][Next]_vars

(***************************************************************************)
(* SpecRoundTrip: d.add_seconds(n) followed by d.sub_seconds(n), one loop  *)
(* iteration per step.                                                     *)
(***************************************************************************)
RtInit ==
    /\ \E t \in EdgeInstants, n \in 0 .. MaxCount :
          rt = [pc |-> "add_seconds", d |-> t, d0 |-> t, n |-> n, i |-> 0]
    /\ CalIdle /\ DfIdle /\ NmIdle /\ FdIdle /\ NwIdle /\ GeoIdle /\ AuxIdle

\* One iteration of the for loop of add_seconds.
RtAddIter ==
    /\ rt.pc = "add_seconds" /\ rt.i < rt.n
    /\ rt' = [rt EXCEPT !.d = add_second(@), !.i = @ + 1]
    /\ UNCHANGED <<calVars, df, nm, fd, nw, geoVars, auxVars>>

\* add_seconds returns; sub_seconds(n) is called on the same object.
RtAddReturn ==
    /\ rt.pc = "add_seconds" /\ ~ (rt.i < rt.n)
    /\ rt' = [rt EXCEPT !.pc = "sub_seconds", !.i = 0]
    /\ UNCHANGED <<calVars, df, nm, fd, nw, geoVars, auxVars>>

\* One iteration of the for loop of sub_seconds.
RtSubIter ==
    /\ rt.pc = "sub_seconds" /\ rt.i < rt.n
    /\ rt' = [rt EXCEPT !.d = sub_second(@), !.i = @ + 1]
    /\ UNCHANGED <<calVars, df, nm, fd, nw, geoVars, auxVars>>

RtSubReturn ==
    /\ rt.pc = "sub_seconds" /\ ~ (rt.i < rt.n)
    /\ rt' = [rt EXCEPT !.pc = "done"]
    /\ UNCHANGED <<calVars, df, nm, fd, nw, geoVars, auxVars>>

RtNext == RtAddIter \/ RtAddReturn \/ RtSubIter \/ RtSubReturn
SpecRoundTrip == RtInit /\ [][RtNext]_vars

(***************************************************************************)
(* SpecDiff: r = self - other (datetime.__sub__ with a datetime), then     *)
(* other + r (datetime.__add__), one loop iteration per step.              *)
(***************************************************************************)
\* Day boundaries whose two sides supply the operands.
DiffBoundaries ==
    { << <<1582, 10, 4>>, <<1582, 10, 15>> >>,
      << <<2024, 2, 28>>, <<2024, 2, 29>> >>,
      << <<2023, 2, 28>>, <<2023, 3, 1>> >>,
      << <<1999, 12, 31>>, <<2000, 1, 1>> >> }

\* The last MaxSpan seconds of the left day and the first MaxSpan seconds of
\* the right day.
DiffWindow(bd) ==
    { datetime(bd[1][1], bd[1][2], bd[1][3], 23, 59, 60 - k) : k \in 1 .. MaxSpan }
    \cup
    { datetime(bd[2][1], bd[2][2], bd[2][3], 0, 0, k - 1) : k \in 1 .. MaxSpan }

DfInit ==
    /\ \E bd \in DiffBoundaries :
          \E x \in DiffWindow(bd), y \in DiffWindow(bd) :
              \* a = other.copy(); b = self.copy(); seconds = 0
              df = [pc |-> IF dt_ge(x, y) THEN "while_lt" ELSE "while_gt",
                    self |-> x, other |-> y,
                    a |-> copy(y), b |-> copy(x), seconds |-> 0,
                    td |-> 0, result |-> NoInstant]
    /\ CalIdle /\ RtIdle /\ NmIdle /\ FdIdle /\ NwIdle /\ GeoIdle /\ AuxIdle

\* while a < b: a.add_second(); seconds += 1
DfForwardIter ==
    /\ df.pc = "while_lt" /\ dt_lt(df.a, df.b)
    /\ df' = [df EXCEPT !.a = add_second(@), !.seconds = @ + 1]
    /\ UNCHANGED <<calVars, rt, nm, fd, nw, geoVars, auxVars>>

\* while a > b: a.sub_second(); seconds -= 1
DfBackwardIter ==
    /\ df.pc = "while_gt" /\ dt_gt(df.a, df.b)
    /\ df' = [df EXCEPT !.a = sub_second(@), !.seconds = @ - 1]
    /\ UNCHANGED <<calVars, rt, nm, fd, nw, geoVars, auxVars>>

\* The loop ends: return timedelta(0, 0, 0, seconds).
DfReturn ==
    /\ \/ df.pc = "while_lt" /\ ~ dt_lt(df.a, df.b)
       \/ df.pc = "while_gt" /\ ~ dt_gt(df.a, df.b)
    /\ df' = [df EXCEPT !.td = timedelta(0, 0, 0, df.seconds), !.pc = "returned"]
    /\ UNCHANGED <<calVars, rt, nm, fd, nw, geoVars, auxVars>>

\* other + td, with the duration just returned.
DfPlus ==
    /\ df.pc = "returned"
    /\ df' = [df EXCEPT !.result = dt_add(df.other, df.td), !.pc = "done"]
    /\ UNCHANGED <<calVars, rt, nm, fd, nw, geoVars, auxVars>>

DfNext == DfForwardIter \/ DfBackwardIter \/ DfReturn \/ DfPlus
SpecDiff == DfInit /\ [][DfNext]_vars

(***************************************************************************)
(* SpecNorm: normalize() called on a datetime built from any integers.     *)
(***************************************************************************)
RawSeconds == {-61, -1, 0, 59, 60, 125}
RawMinutes == {-1, 0, 59, 60}
RawHours == {-25, -1, 0, 23, 24}
RawDays == {-31, 0, 1, 15, 28, 31, 32, 400}
RawMonths == {-13, -1, 0, 1, 2, 12, 13, 14, 25}
RawYears == {1582, 1999, 2000, 2024}

NmInit ==
    /\ \E y \in RawYears, mo \in RawMonths, dd \in RawDays,
          h \in RawHours, mi \in RawMinutes, s \in RawSeconds :
          nm = [pc |-> "new", raw |-> datetime(y, mo, dd, h, mi, s),
                t |-> datetime(y, mo, dd, h, mi, s)]
    /\ CalIdle /\ RtIdle /\ DfIdle /\ FdIdle /\ NwIdle /\ GeoIdle /\ AuxIdle

NmNormalize ==
    /\ nm.pc = "new"
    /\ nm' = [nm EXCEPT !.t = normalize(@), !.pc = "normalized"]
    /\ UNCHANGED <<calVars, rt, df, fd, nw, geoVars, auxVars>>

NmNext == NmNormalize
SpecNorm == NmInit /\ [][NmNext]_vars

(***************************************************************************)
(* The ephemeris adapter.  A query at an instant answers the apparent      *)
(* Sun-Moon separation and the eclipse threshold; the model draws both     *)
(* from small sets of integers (units of the comparison only).             *)
(***************************************************************************)
Separations == {0, 1, 2}
Thresholds == {1}
\* In the one-second scan the threshold moves with the distances.
NarrowThresholds == {0, 2}

\* A mutation of the threshold test: every sample is recorded.
WithinThreshold_always(thr, sep) == TRUE

\* eclipse_threshold >= angular_separation
WithinThreshold(thr, sep) == thr >= sep

\* The record of one query: where the cursor was and what was answered.
Sample(at, sep, thr) == [at |-> at, sep |-> sep, thr |-> thr]

(***************************************************************************)
(* Python's call binding: a function whose parameters have no defaults is  *)
(* entered only with one argument per parameter; otherwise the call raises *)
(* TypeError before the body runs.                                         *)
(***************************************************************************)
\* def senarrow(starttime, endtime, tt)
senarrow_parameters == 3
\* psenarrow.senarrow(start_estimate, end_estimate)
senarrow_arguments_passed == 2

CallBinds(arguments, parameters) == arguments = parameters

(***************************************************************************)
(* SpecFinder: psefinder.sefinder, one iteration of its while loop per     *)
(* step.                                                                   *)
(***************************************************************************)
\* The caller's intervals: across the cutover, across a leap day, inside
\* one day, and one that is empty (start after end).
FinderIntervals ==
    { <<datetime(1582, 10, 4, 23, 59, 0), datetime(1582, 10, 15, 0, 1, 0)>>,
      <<datetime(2024, 2, 29, 23, 58, 30), datetime(2024, 3, 1, 0, 0, 30)>>,
      <<datetime(2024, 4, 8, 18, 17, 0), datetime(2024, 4, 8, 18, 19, 0)>>,
      <<datetime(2024, 4, 8, 18, 17, 0), datetime(2024, 4, 8, 18, 16, 59)>> }

\* The caller's coarse steps, as timedelta(days, hours, minutes, seconds).
FinderSteps ==
    { timedelta(0, 0, 0, 20), timedelta(0, 0, 0, 30),
      timedelta(0, 0, 0, 0), timedelta(0, 0, -1, 30) }

FdInit ==
    /\ \E iv \in FinderIntervals, stp \in FinderSteps, ps \in BOOLEAN :
          fd = [pc |-> "Scanning",
                start_time |-> iv[1], end_time |-> iv[2],
                printsep |-> ps, step |-> stp,
                current_time |-> copy(iv[1]),
                coarse |-> << >>,
                start_estimate |-> NoInstant, end_estimate |-> NoInstant,
                printed |-> << >>]
    /\ CalIdle /\ RtIdle /\ DfIdle /\ NmIdle /\ NwIdle /\ GeoIdle /\ AuxIdle

\* What print() writes for a refinement that found a maximum.
PrintedLine(printsep, eclipse_date, min_separation) ==
    IF printsep THEN <<eclipse_date, min_separation, "rad">> ELSE <<eclipse_date>>

\* An iteration whose sample is within threshold: the window is built and
\* senarrow is called.  The call passes senarrow_arguments_passed arguments
\* to senarrow_parameters parameters; where the call binds, the result is
\* printed if there is one and the cursor moves on by 27 days and then by
\* the step.
FdCandidate ==
    /\ fd.pc = "Scanning" /\ dt_le(fd.current_time, fd.end_time)
    /\ Len(fd.coarse) < MaxCoarse
    /\ \E sep \in Separations, thr \in Thresholds :
          /\ WithinThreshold(thr, sep)
          /\ LET start_estimate == sub_minute(copy(fd.current_time))
                 end_estimate == add_hours(copy(fd.current_time), 3)
                 sampled == Append(fd.coarse, Sample(fd.current_time, sep, thr))
             IN  IF ~ CallBinds(senarrow_arguments_passed, senarrow_parameters)
                 THEN fd' = [fd EXCEPT !.pc = "TypeError",
                                       !.coarse = sampled,
                                       !.start_estimate = start_estimate,
                                       !.end_estimate = end_estimate]
                 ELSE \E found \in BOOLEAN, min_separation \in Separations :
                        fd' = [fd EXCEPT
                                 !.coarse = sampled,
                                 !.start_estimate = start_estimate,
                                 !.end_estimate = end_estimate,
                                 !.printed =
                                     IF found
                                     THEN Append(@, PrintedLine(fd.printsep,
                                                     "eclipse_date", min_separation))
                                     ELSE @,
                                 !.current_time =
                                     dt_add(add_days(fd.current_time, 27), fd.step)]
    /\ UNCHANGED <<calVars, rt, df, nm, nw, geoVars, auxVars>>

\* An iteration whose sample is outside threshold: current_time + step.
FdAdvance ==
    /\ fd.pc = "Scanning" /\ dt_le(fd.current_time, fd.end_time)
    /\ Len(fd.coarse) < MaxCoarse
    /\ \E sep \in Separations, thr \in Thresholds :
          /\ ~ WithinThreshold(thr, sep)
          /\ fd' = [fd EXCEPT
                      !.coarse = Append(@, Sample(fd.current_time, sep, thr)),
                      !.current_time = dt_add(fd.current_time, fd.step)]
    /\ UNCHANGED <<calVars, rt, df, nm, nw, geoVars, auxVars>>

\* The loop condition current_time <= end_time fails: sefinder returns.
FdDone ==
    /\ fd.pc = "Scanning" /\ ~ dt_le(fd.current_time, fd.end_time)
    /\ fd' = [fd EXCEPT !.pc = "Done"]
    /\ UNCHANGED <<calVars, rt, df, nm, nw, geoVars, auxVars>>

FdNext == FdCandidate \/ FdAdvance \/ FdDone
SpecFinder == FdInit /\ [][FdNext]_vars

(***************************************************************************)
(* SpecNarrow: psenarrow.senarrow(starttime, endtime, tt), entered with    *)
(* all three arguments, one iteration of its while loop per step.          *)
(***************************************************************************)
\* format(n, "0<width>d") for the widths of isoformat: zeros on the left,
\* the sign counted in the width.
RECURSIVE ZeroFill(_, _)
ZeroFill(str, width) ==
    IF Len(str) >= width THEN str ELSE ZeroFill("0" \o str, width)

FormatD(n, width) ==
    IF n < 0 THEN "-" \o ZeroFill(ToString(-n), width - 1)
    ELSE ZeroFill(ToString(n), width)

isoformat(t) ==
    FormatD(t.year, 4) \o "-" \o FormatD(t.month, 2) \o "-" \o FormatD(t.day, 2)
    \o "T" \o FormatD(t.hour, 2) \o ":" \o FormatD(t.minute, 2)
    \o ":" \o FormatD(t.second, 2)

\* round(float(t.delta_t)) for a delta-T given in half seconds: Python
\* rounds a tie to the even integer.
PyRoundHalves(halves) ==
    IF halves % 2 = 0 THEN halves \div 2
    ELSE LET below == (halves - 1) \div 2
         IN  IF below % 2 = 0 THEN below ELSE below + 1

\* Delta-T answers of the adapter, in half seconds: -1.5, 0, 0.5, 1.5, 2.5.
DeltaTHalves == {-3, 0, 1, 3, 5}

\* min(angular_separations)
RECURSIVE ListMin(_)
ListMin(list) ==
    IF Len(list) = 1 THEN list[1]
    ELSE LET rest == ListMin(Tail(list))
         IN  IF rest < list[1] THEN rest ELSE list[1]

\* angular_separations.index(min_sep_angle): the first position.
ListIndex(list, value) ==
    CHOOSE i \in 1 .. Len(list) :
        /\ list[i] = value
        /\ \A j \in 1 .. i - 1 : list[j] # value

\* The windows handed to senarrow: one across the cutover, and the windows
\* that start at 2024-04-08T18:17:20 and hold 0 .. MaxWindow samples.
NarrowWindows ==
    { <<datetime(1582, 10, 4, 23, 59, 58), datetime(1582, 10, 15, 0, 0, 0)>> }
    \cup
    { <<datetime(2024, 4, 8, 18, 17, 20), datetime(2024, 4, 8, 18, 17, 19 + k)>> :
        k \in 0 .. MaxWindow }

NoneResult == [none |-> TRUE]

NwInit ==
    /\ \E w \in NarrowWindows, tt \in BOOLEAN :
          nw = [pc |-> "loop",
                starttime |-> w[1], endtime |-> w[2], tt |-> tt,
                current_time |-> copy(w[1]),
                angular_separations |-> << >>, timestamps |-> << >>,
                sampled |-> << >>, delta_t |-> 0,
                result |-> NoneResult]
    /\ CalIdle /\ RtIdle /\ DfIdle /\ NmIdle /\ FdIdle /\ GeoIdle /\ AuxIdle

\* One iteration: query the adapter at current_time, record the sample if
\* it is within its threshold, then current_time.add_second().
NwSample ==
    /\ nw.pc = "loop" /\ dt_le(nw.current_time, nw.endtime)
    /\ \E sep \in Separations, thr \in NarrowThresholds :
          nw' = [nw EXCEPT
                   !.angular_separations =
                       IF WithinThreshold(thr, sep) THEN Append(@, sep) ELSE @,
                   !.timestamps =
                       IF WithinThreshold(thr, sep)
                       THEN Append(@, copy(nw.current_time)) ELSE @,
                   !.sampled = Append(@, Sample(nw.current_time, sep, thr)),
                   !.current_time = add_second(@)]
    /\ UNCHANGED <<calVars, rt, df, nm, fd, geoVars, auxVars>>

\* if not angular_separations: return None, None
NwReturnNone ==
    /\ nw.pc = "loop" /\ ~ dt_le(nw.current_time, nw.endtime)
    /\ nw.angular_separations = << >>
    /\ nw' = [nw EXCEPT !.pc = "returned", !.result = NoneResult]
    /\ UNCHANGED <<calVars, rt, df, nm, fd, geoVars, auxVars>>

\* The minimum, its first index, its timestamp; with tt the timestamp is
\* moved by round(delta_t) seconds; the ISO text and the minimum return.
NwReturnMin ==
    /\ nw.pc = "loop" /\ ~ dt_le(nw.current_time, nw.endtime)
    /\ nw.angular_separations # << >>
    /\ \E delta_t \in DeltaTHalves :
          LET min_sep_angle == ListMin(nw.angular_separations)
              min_index == ListIndex(nw.angular_separations, min_sep_angle)
              min_time == nw.timestamps[min_index]
              return_time ==
                  IF nw.tt
                  THEN dt_add(copy(min_time),
                              timedelta(0, 0, 0, PyRoundHalves(delta_t)))
                  ELSE copy(min_time)
          IN  nw' = [nw EXCEPT
                       !.pc = "returned",
                       !.delta_t = delta_t,
                       !.result = [none |-> FALSE,
                                   date |-> isoformat(return_time),
                                   sep |-> min_sep_angle]]
    /\ UNCHANGED <<calVars, rt, df, nm, fd, geoVars, auxVars>>

NwNext == NwSample \/ NwReturnNone \/ NwReturnMin
SpecNarrow == NwInit /\ [][NwNext]_vars

(***************************************************************************)
(* pedatetime.py: the constructors.  A Python value handed to a            *)
(* constructor is the record of its type and of the integer it stands     *)
(* for: True is 1, the float is 2.0, the string is "5", None stands for   *)
(* nothing.                                                                *)
(***************************************************************************)
PyInt(n) == [type |-> "int", val |-> n]
PyTrue == [type |-> "bool", val |-> 1]
PyFloat(n) == [type |-> "float", val |-> n]
PyStr(n) == [type |-> "str", val |-> n]
PyNone == [type |-> "NoneType", val |-> 0]

\* The values a component is drawn from.
PyValues == {PyInt(5), PyInt(-1), PyTrue, PyFloat(2), PyStr(5), PyNone}

\* A mutation of isinstance(v, int): every number passes.
isinstance_int_numbers(v) == v.type \in {"int", "bool", "float"}

\* isinstance(v, int): bool is a subclass of int.
isinstance_int(v) == v.type \in {"int", "bool"}

\* all(isinstance(v, int) for v in (...)).
all_int(args) == \A i \in DOMAIN args : isinstance_int(args[i])

NoObject == [none |-> TRUE]

CtInit ==
    /\ \/ \E a \in [1 .. 6 -> PyValues] :
             ct = [pc |-> "call", cls |-> "datetime", args |-> a, obj |-> NoObject]
       \/ \E a \in [1 .. 4 -> PyValues] :
             ct = [pc |-> "call", cls |-> "timedelta", args |-> a, obj |-> NoObject]
    /\ AuxIdle /\ EngineIdle /\ PjIdle /\ GmIdle /\ CsIdle /\ MnIdle

\* datetime.__init__: the type check, then the six assignments.
NewDatetime ==
    /\ ct.pc = "call" /\ ct.cls = "datetime"
    /\ ct' = IF ~all_int(ct.args)
             THEN [ct EXCEPT !.pc = "TypeError"]
             ELSE [ct EXCEPT !.pc = "constructed",
                             !.obj = datetime(ct.args[1], ct.args[2], ct.args[3],
                                              ct.args[4], ct.args[5], ct.args[6])]
    /\ UNCHANGED <<auxVars, engineVars, pj, gm, cs, mn>>

\* timedelta.__init__: the type check, then total_seconds.
NewTimedelta ==
    /\ ct.pc = "call" /\ ct.cls = "timedelta"
    /\ ct' = IF ~all_int(ct.args)
             THEN [ct EXCEPT !.pc = "TypeError"]
             ELSE [ct EXCEPT !.pc = "constructed",
                             !.obj = [total_seconds |->
                                         timedelta(ct.args[1].val, ct.args[2].val,
                                                   ct.args[3].val, ct.args[4].val)]]
    /\ UNCHANGED <<auxVars, engineVars, pj, gm, cs, mn>>

CtNext == NewDatetime \/ NewTimedelta
SpecCtor == CtInit /\ [][CtNext]_vars

(***************************************************************************)
(* Numbers.  A float of the program is an integer count of a unit: the     *)
(* Besselian X and Y and the ellipsoid constants are counted in 1e-9, the  *)
(* angles handed back in 1e-6 degree.  Products of three such counts pass  *)
(* 32 bits, so the comparisons on them are made on naturals written in    *)
(* base Base, least significant digit first.                              *)
(***************************************************************************)
Nano == 10 ^ 9
MicroDeg == 10 ^ 6
Base == 10 ^ 4

Abs(n) == IF n < 0 THEN -n ELSE n
Sign(n) == IF n < 0 THEN -1 ELSE IF n > 0 THEN 1 ELSE 0
Larger(a, b) == IF a >= b THEN a ELSE b

\* The digits of a natural below 2^31.
BigOf(n) == <<n % Base, (n \div Base) % Base, n \div (Base * Base)>>

Digit(a, i) == IF i <= Len(a) THEN a[i] ELSE 0

RECURSIVE Carry(_, _, _)
Carry(s, i, c) ==
    IF i > Len(s)
    THEN IF c = 0 THEN << >> ELSE <<c % Base>> \o Carry(s, i, c \div Base)
    ELSE <<(s[i] + c) % Base>> \o Carry(s, i + 1, (s[i] + c) \div Base)

RECURSIVE ConvTerm(_, _, _, _)
ConvTerm(a, b, k, i) ==
    IF i > Len(a) THEN 0
    ELSE (IF k + 1 - i \in 1 .. Len(b) THEN a[i] * b[k + 1 - i] ELSE 0)
             + ConvTerm(a, b, k, i + 1)

BigMul(a, b) == Carry([k \in 1 .. (Len(a) + Len(b) - 1) |-> ConvTerm(a, b, k, 1)], 1, 0)
BigAdd(a, b) == Carry([k \in 1 .. Larger(Len(a), Len(b)) |-> Digit(a, k) + Digit(b, k)], 1, 0)
BigSq(n) == BigMul(BigOf(Abs(n)), BigOf(Abs(n)))

RECURSIVE BigGtFrom(_, _, _)
BigGtFrom(a, b, i) ==
    IF i = 0 THEN FALSE
    ELSE IF Digit(a, i) # Digit(b, i) THEN Digit(a, i) > Digit(b, i)
    ELSE BigGtFrom(a, b, i - 1)

BigGt(a, b) == BigGtFrom(a, b, Larger(Len(a), Len(b)))
BigEq(a, b) == ~BigGt(a, b) /\ ~BigGt(b, a)

(***************************************************************************)
(* pconstants.py, in units of 1e-9 (DELTA_LAMBDA_FACTOR in 1e-8 degree).   *)
(***************************************************************************)
E_SQUARED == 6694385
ONE_MINUS_F == 996647190
DELTA_LAMBDA_FACTOR == 417807

(***************************************************************************)
(* The math library at the arguments where its value is exact.  An angle   *)
(* that is not one of them is any of a few angles of its open range.      *)
(***************************************************************************)
\* math.cos and math.sin of a declination of -90, 0 or 90 degrees.
math_cos(degrees) == IF degrees = 0 THEN 1 ELSE 0
math_sin(degrees) == IF degrees = 0 THEN 0 ELSE Sign(degrees)

InnerAngles == {1, 45, 89}

\* math.asin, in degrees, of a sine known by its sign and by whether its
\* magnitude is 0, 1 or in between.
math_asin(sign, magnitude) ==
    CASE magnitude = "zero" -> {0}
      [] magnitude = "one"  -> {sign * 90 * MicroDeg}
      [] magnitude = "less" -> {sign * a * MicroDeg : a \in InnerAngles}

\* math.atan2, in degrees, of a sine and a cosine known by their signs.
math_atan2(sin_sign, cos_sign) ==
    CASE sin_sign = 0 /\ cos_sign >= 0 -> {0}
      [] sin_sign = 0 /\ cos_sign < 0  -> {180 * MicroDeg}
      [] sin_sign # 0 /\ cos_sign = 0  -> {sin_sign * 90 * MicroDeg}
      [] sin_sign # 0 /\ cos_sign > 0  -> {sin_sign * a * MicroDeg : a \in InnerAngles}
      [] sin_sign # 0 /\ cos_sign < 0  -> {sin_sign * (180 - a) * MicroDeg : a \in InnerAngles}

\* atan(ELLIPSOID_CORRECTION * tan(phi1)): the poles and the equator stay,
\* any other latitude moves away from the equator within its hemisphere.
geodetic_latitude(phi1) ==
    IF Abs(phi1) \in {0, 90 * MicroDeg} THEN {phi1}
    ELSE {Sign(phi1) * a * MicroDeg : a \in {b \in InnerAngles : b * MicroDeg >= Abs(phi1)}}

Sentinel ==
    [kind |-> "sentinel", lat_uncorrected |-> 0, lon_uncorrected |-> 0, lat |-> 0, lon |-> 0]
DomainError ==
    [kind |-> "ValueError", lat_uncorrected |-> 0, lon_uncorrected |-> 0, lat |-> 0, lon |-> 0]
Pending ==
    [kind |-> "pending", lat_uncorrected |-> 0, lon_uncorrected |-> 0, lat |-> 0, lon |-> 0]

(***************************************************************************)
(* psecentralcoords.py.  The value of coords is the set of the results     *)
(* the call can give: one result wherever the angles are exact.            *)
(***************************************************************************)
psecentralcoords_poly(coeffs, t) ==
    coeffs[1] + coeffs[2] * t + coeffs[3] * t * t + coeffs[4] * t * t * t

psecentralcoords_coords(x_coeffs, y_coeffs, d_coeffs, m_coeffs, delta_t, t) ==
    LET X == psecentralcoords_poly(x_coeffs, t)
        Y == psecentralcoords_poly(y_coeffs, t)
        d_deg == psecentralcoords_poly(d_coeffs, t)
        m_deg == psecentralcoords_poly(m_coeffs, t)
        cos_d == math_cos(d_deg)
        sin_d == math_sin(d_deg)
        \* omega * omega = Nano / omega_sq_den
        omega_sq_den == Nano - E_SQUARED * cos_d * cos_d
        \* Bsq = 1 - X*X - y1*y1, times Nano * Nano * omega_sq_den
        lhs == BigAdd(BigMul(BigSq(X), BigOf(omega_sq_den)), BigMul(BigSq(Y), BigOf(Nano)))
        rhs == BigMul(BigSq(Nano), BigOf(omega_sq_den))
        B_sign == IF BigEq(lhs, rhs) THEN 0 ELSE 1
        \* sin_phi1 = B * b1 + y1 * b2: b1 = omega * sin(d) and
        \* b2 = one_minus_f * omega * cos(d), one of which is zero here
        sin_phi1_sign == IF cos_d = 0 THEN sin_d * B_sign ELSE Sign(Y)
        y1_b2 == BigMul(BigOf(ONE_MINUS_F), BigOf(Abs(Y)))
        one == BigMul(BigOf(Nano), BigOf(omega_sq_den))
        sin_phi1_size ==
            IF cos_d = 0
            THEN IF B_sign = 0 THEN "zero" ELSE IF X = 0 /\ Y = 0 THEN "one" ELSE "less"
            ELSE IF Y = 0 THEN "zero"
                 ELSE IF BigGt(y1_b2, one) THEN "over"
                 ELSE IF BigEq(y1_b2, one) THEN "one" ELSE "less"
        \* sin_H = X / cos_phi1 and cos_H = (B * b2 - y1 * b1) / cos_phi1,
        \* where cos_phi1 > 0 and one of b1, b2 is zero
        sin_H == Sign(X)
        cos_H == IF sin_d # 0 THEN -(Sign(Y) * sin_d) ELSE B_sign
        shift == (DELTA_LAMBDA_FACTOR * delta_t) \div 100
    IN  IF BigGt(lhs, rhs) THEN {Sentinel}
        ELSE IF sin_phi1_size = "over" THEN {DomainError}
        ELSE { [kind |-> "pair",
                lat_uncorrected |-> phi,
                lon_uncorrected |-> -((m_deg * MicroDeg - H - shift) % (360 * MicroDeg)),
                lat |-> ((phi + 90 * MicroDeg) % (180 * MicroDeg)) - 90 * MicroDeg,
                lon |-> ((-((m_deg * MicroDeg - H - shift) % (360 * MicroDeg))
                            + 180 * MicroDeg) % (360 * MicroDeg)) - 180 * MicroDeg] :
                 phi \in UNION {geodetic_latitude(phi1) :
                                   phi1 \in math_asin(sin_phi1_sign, sin_phi1_size)},
                 H \in math_atan2(sin_H, cos_H) }

(***************************************************************************)
(* pcentercoords.py.                                                       *)
(***************************************************************************)
pcentercoords_poly(a, t) == a[1] + a[2] * t + a[3] * t ^ 2 + a[4] * t ^ 3

pcentercoords_coords(Xa, Ya, Da, Ma, delta_t, T) ==
    LET X == pcentercoords_poly(Xa, T)
        Y == pcentercoords_poly(Ya, T)
        d_deg == pcentercoords_poly(Da, T)
        m_deg == pcentercoords_poly(Ma, T)
        \* omega * omega = Nano / omega_sq_den
        omega_sq_den == Nano - E_SQUARED * (math_cos(d_deg) ^ 2)
        \* Bsq = 1 - X**2 - y1**2, times Nano * Nano * omega_sq_den
        lhs == BigAdd(BigMul(BigSq(X), BigOf(omega_sq_den)), BigMul(BigSq(Y), BigOf(Nano)))
        rhs == BigMul(BigSq(Nano), BigOf(omega_sq_den))
        B_sign == IF BigEq(lhs, rhs) THEN 0 ELSE 1
        \* sinphi1 = B * b1 + y1 * b2
        sinphi1_sign == IF math_cos(d_deg) = 0 THEN math_sin(d_deg) * B_sign ELSE Sign(Y)
        y1_b2 == BigMul(BigOf(ONE_MINUS_F), BigOf(Abs(Y)))
        one == BigMul(BigOf(Nano), BigOf(omega_sq_den))
        sinphi1_size ==
            IF math_cos(d_deg) = 0
            THEN IF B_sign = 0 THEN "zero" ELSE IF X = 0 /\ Y = 0 THEN "one" ELSE "less"
            ELSE IF Y = 0 THEN "zero"
                 ELSE IF BigGt(y1_b2, one) THEN "over"
                 ELSE IF BigEq(y1_b2, one) THEN "one" ELSE "less"
        sinH == Sign(X)
        cosH == IF math_sin(d_deg) # 0 THEN -(Sign(Y) * math_sin(d_deg)) ELSE B_sign
        shift == (DELTA_LAMBDA_FACTOR * delta_t) \div 100
    IN  IF BigGt(lhs, rhs) THEN {Sentinel}
        ELSE IF sinphi1_size = "over" THEN {DomainError}
        ELSE { [kind |-> "pair",
                lat_uncorrected |-> phi,
                lon_uncorrected |-> ((m_deg * MicroDeg - H - shift) % (360 * MicroDeg)) * (-1),
                lat |-> ((phi + 90 * MicroDeg) % (180 * MicroDeg)) - 90 * MicroDeg,
                lon |-> ((((m_deg * MicroDeg - H - shift) % (360 * MicroDeg)) * (-1)
                            + 180 * MicroDeg) % (360 * MicroDeg)) - 180 * MicroDeg] :
                 phi \in UNION {geodetic_latitude(phi1) :
                                   phi1 \in math_asin(sinphi1_sign, sinphi1_size)},
                 H \in math_atan2(sinH, cosH) }

(***************************************************************************)
(* SpecCoords: both projectors are called on the same elements.            *)
(***************************************************************************)
\* The cubics of X and Y: off the Earth, on its centre, on its limb at the
\* pole, just inside it, and moving through it.
XCoeffs ==
    { <<0, 0, 0, 0>>, <<2 * Nano, 0, 0, 0>>, <<Nano, 0, 0, 0>>, <<0, 500000000, 0, 0>> }
YCoeffs ==
    { <<0, 0, 0, 0>>, <<2 * Nano, 0, 0, 0>>, <<996647186, 0, 0, 0>>,
      <<996647187, 0, 0, 0>>, <<0, 500000000, 0, 0>> }
\* The declination and the hour angle, in degrees.
DCoeffs == { <<0, 0, 0, 0>>, <<90, 0, 0, 0>>, <<0, 90, 0, 0>> }
MCoeffs == { <<0, 0, 0, 0>>, <<180, 0, 0, 0>>, <<90, 15, 0, 0>> }
CoordsDeltaT == {0, 100}
CoordsTimes == {-1, 0, 1}

PjInit ==
    /\ \E xc \in XCoeffs, yc \in YCoeffs, dc \in DCoeffs, mc \in MCoeffs,
          dt \in CoordsDeltaT, t \in CoordsTimes :
          pj = [pc |-> "call", x_coeffs |-> xc, y_coeffs |-> yc, d_coeffs |-> dc,
                m_coeffs |-> mc, delta_t |-> dt, t |-> t,
                central |-> Pending, center |-> Pending]
    /\ AuxIdle /\ EngineIdle /\ CtIdle /\ GmIdle /\ CsIdle /\ MnIdle

CoordsCentral ==
    /\ pj.pc = "call" /\ pj.central = Pending
    /\ \E r \in psecentralcoords_coords(pj.x_coeffs, pj.y_coeffs, pj.d_coeffs,
                                        pj.m_coeffs, pj.delta_t, pj.t) :
          pj' = [pj EXCEPT !.central = r]
    /\ UNCHANGED <<auxVars, engineVars, ct, gm, cs, mn>>

CoordsCenter ==
    /\ pj.pc = "call" /\ pj.center = Pending
    /\ \E r \in pcentercoords_coords(pj.x_coeffs, pj.y_coeffs, pj.d_coeffs,
                                     pj.m_coeffs, pj.delta_t, pj.t) :
          pj' = [pj EXCEPT !.center = r]
    /\ UNCHANGED <<auxVars, engineVars, ct, gm, cs, mn>>

PjNext == CoordsCentral \/ CoordsCenter
SpecCoords == PjInit /\ [][PjNext]_vars

(***************************************************************************)
(* psegam.py and psecentral.py.  Here X, Y and gamma are counted in 1e-4   *)
(* Earth radius, so that their squares stay below 32 bits.                 *)
(***************************************************************************)
PerUnit == 10 ^ 4

RECURSIVE RootBetween(_, _, _)
\* The largest r in low .. high with r * r <= s, by bisection.
RootBetween(s, low, high) ==
    IF low = high THEN low
    ELSE LET mid == (low + high + 1) \div 2
         IN  IF mid * mid <= s THEN RootBetween(s, mid, high)
             ELSE RootBetween(s, low, mid - 1)

\* math.hypot: the square root of x*x + y*y, rounded to the nearest count.
math_hypot(x, y) == (RootBetween(4 * (x * x + y * y), 0, 2 * (Abs(x) + Abs(y))) + 1) \div 2

psegam_poly(coeffs, t) ==
    coeffs[1] + coeffs[2] * t + coeffs[3] * t * t + coeffs[4] * t * t * t

\* A mutation of gamma: the sign is taken from y_val <= 0.0.
psegam_gamma_south_at_zero(x_coeffs, y_coeffs, t_max) ==
    LET x_val == psegam_poly(x_coeffs, t_max)
        y_val == psegam_poly(y_coeffs, t_max)
        gamma_val == math_hypot(x_val, y_val)
    IN  IF y_val <= 0 THEN -gamma_val ELSE gamma_val

psegam_gamma(x_coeffs, y_coeffs, t_max) ==
    LET x_val == psegam_poly(x_coeffs, t_max)
        y_val == psegam_poly(y_coeffs, t_max)
        gamma_val == math_hypot(x_val, y_val)
    IN  IF y_val < 0 THEN -gamma_val ELSE gamma_val

\* The names bound in module pconstants.
pconstants_attributes ==
    { "SUN_RADIUS_KM", "EARTH_RADIUS_KM", "E_SQUARED", "ONE_MINUS_F",
      "ELLIPSOID_CORRECTION", "MOON_RADIUS_KM", "DELTA_LAMBDA_FACTOR",
      "K_UMBRA", "K_PENUMBRA" }

\* pconstants.<name> for the constants the model holds.
pconstants_getattr(name) ==
    CASE name = "E_SQUARED" -> E_SQUARED
      [] name = "ONE_MINUS_F" -> ONE_MINUS_F
      [] name = "DELTA_LAMBDA_FACTOR" -> DELTA_LAMBDA_FACTOR

Raised(error) == [raised |-> error, value |-> FALSE]
Returned(value) == [raised |-> "none", value |-> value]
NotCalled == [raised |-> "pending", value |-> FALSE]

\* abs(gamma) <= pconstants.CENTRAL_GAMMA_LIMIT
psecentral_central(gamma) ==
    IF "CENTRAL_GAMMA_LIMIT" \notin pconstants_attributes
    THEN Raised("AttributeError")
    ELSE Returned(Abs(gamma) <= pconstants_getattr("CENTRAL_GAMMA_LIMIT"))

\* abs(gamma) <= pconstants.EXIST_GAMMA_LIMIT
psecentral_exist(gamma) ==
    IF "EXIST_GAMMA_LIMIT" \notin pconstants_attributes
    THEN Raised("AttributeError")
    ELSE Returned(Abs(gamma) <= pconstants_getattr("EXIST_GAMMA_LIMIT"))

\* The cubics of X and Y: at rest on and around the two limits, and moving.
GammaXCoeffs == { <<0, 0, 0, 0>>, <<3000, 4000, 0, 0>>, <<0, 6000, 0, 2000>> }
GammaYCoeffs ==
    { <<0, 0, 0, 0>>, <<9972, 0, 0, 0>>, <<-9972, 0, 0, 0>>, <<9973, 0, 0, 0>>,
      <<15600, 0, 0, 0>>, <<-15601, 0, 0, 0>>, <<0, 4000, 0, 0>>, <<-1, 0, 3000, 5000>> }
GammaTimes == {-1, 0, 1}

GmInit ==
    /\ \E xc \in GammaXCoeffs, yc \in GammaYCoeffs, t \in GammaTimes :
          gm = [pc |-> "call", x_coeffs |-> xc, y_coeffs |-> yc, t_max |-> t,
                gamma |-> 0, central |-> NotCalled, exist |-> NotCalled]
    /\ AuxIdle /\ EngineIdle /\ CtIdle /\ PjIdle /\ CsIdle /\ MnIdle

Gamma ==
    /\ gm.pc = "call"
    /\ gm' = [gm EXCEPT !.pc = "gamma",
                        !.gamma = psegam_gamma(gm.x_coeffs, gm.y_coeffs, gm.t_max)]
    /\ UNCHANGED <<auxVars, engineVars, ct, pj, cs, mn>>

Central ==
    /\ gm.pc = "gamma" /\ gm.central = NotCalled
    /\ gm' = [gm EXCEPT !.central = psecentral_central(gm.gamma)]
    /\ UNCHANGED <<auxVars, engineVars, ct, pj, cs, mn>>

Exist ==
    /\ gm.pc = "gamma" /\ gm.exist = NotCalled
    /\ gm' = [gm EXCEPT !.exist = psecentral_exist(gm.gamma)]
    /\ UNCHANGED <<auxVars, engineVars, ct, pj, cs, mn>>

GmNext == Gamma \/ Central \/ Exist
SpecGamma == GmInit /\ [][GmNext]_vars

(***************************************************************************)
(* psestartendtime.py.  Time is counted in units of 15 seconds, and a      *)
(* polynomial holds the 1e-9 counts of its element per power of that unit. *)
(* The distance function is known by its sign, which needs no square root: *)
(* D(t) = hypot(x, y) - (1 + L) has the sign of x*x + y*y - (1 + L)^2 when *)
(* 1 + L >= 0 and is positive otherwise.                                   *)
(***************************************************************************)
UnitsPerHour == 3600 \div 15
Hours(n) == n * UnitsPerHour
\* The solver looks at D every second unit; a root found between two looks
\* is reported at the unit between them.
Tick == 2

psestartendtime_poly(coeffs, t) ==
    coeffs[1] + coeffs[2] * t + coeffs[3] * t * t + coeffs[4] * t * t * t

\* The sign of penumbra_distance(t, x_coeffs, y_coeffs, l_coeffs).
penumbra_distance(t, x_coeffs, y_coeffs, l_coeffs) ==
    LET x == psestartendtime_poly(x_coeffs, t)
        y == psestartendtime_poly(y_coeffs, t)
        radius == psestartendtime_poly(l_coeffs, t)
    IN  IF Nano + radius < 0 THEN 1
        ELSE IF BigGt(BigAdd(BigSq(x), BigSq(y)), BigSq(Nano + radius)) THEN 1
        ELSE IF BigGt(BigSq(Nano + radius), BigAdd(BigSq(x), BigSq(y))) THEN -1
        ELSE 0

BracketError == [raised |-> "ValueError", root |-> 0]
Root(t) == [raised |-> "none", root |-> t]

\* A mutation of brentq: an interval without a sign change gives its
\* lower end instead of an error.
brentq_unchecked(a, b, x_coeffs, y_coeffs, l_coeffs) ==
    LET f == [k \in 0 .. ((b - a) \div Tick) |->
                 penumbra_distance(a + k * Tick, x_coeffs, y_coeffs, l_coeffs)]
        n == (b - a) \div Tick
    IN  IF f[0] = 0 \/ f[0] * f[n] > 0 THEN {Root(a)}
        ELSE IF f[n] = 0 THEN {Root(b)}
        ELSE {Root(a + k * Tick) : k \in {j \in 1 .. n - 1 : f[j] = 0}}
             \cup {Root(a + k * Tick + 1) : k \in {j \in 0 .. n - 1 : f[j] * f[j + 1] < 0}}

\* scipy.optimize.brentq(penumbra_distance, a, b, args): the roots it can
\* converge to in [a, b], or the ValueError it raises when the signs of the
\* function at a and b are the same.
brentq(a, b, x_coeffs, y_coeffs, l_coeffs) ==
    LET f == [k \in 0 .. ((b - a) \div Tick) |->
                 penumbra_distance(a + k * Tick, x_coeffs, y_coeffs, l_coeffs)]
        n == (b - a) \div Tick
    IN  IF f[0] = 0 THEN {Root(a)}
        ELSE IF f[n] = 0 THEN {Root(b)}
        ELSE IF f[0] * f[n] > 0 THEN {BracketError}
        ELSE {Root(a + k * Tick) : k \in {j \in 1 .. n - 1 : f[j] = 0}}
             \cup {Root(a + k * Tick + 1) : k \in {j \in 0 .. n - 1 : f[j] * f[j + 1] < 0}}

NoPair == [raised |-> "pending", start_time |-> 0, end_time |-> 0]
PairError(error) == [raised |-> error, start_time |-> 0, end_time |-> 0]
Pair(s, e) == [raised |-> "none", start_time |-> s, end_time |-> e]

\* A mutation of startendtime: last contact is looked for in the bracket
\* of first contact.
startendtime_one_bracket(x_coeffs, y_coeffs, l_coeffs, t_start, t_mid, t_end) ==
    { IF s.raised # "none" THEN PairError(s.raised)
      ELSE IF e.raised # "none" THEN PairError(e.raised)
      ELSE Pair(s.root, e.root) :
          s \in brentq(t_start, t_mid, x_coeffs, y_coeffs, l_coeffs),
          e \in brentq(t_start, t_mid, x_coeffs, y_coeffs, l_coeffs) }

\* startendtime: first contact from [t_start, t_mid], then last contact
\* from [t_mid, t_end]; an error of either solve leaves no pair.
startendtime(x_coeffs, y_coeffs, l_coeffs, t_start, t_mid, t_end) ==
    { IF s.raised # "none" THEN PairError(s.raised)
      ELSE IF e.raised # "none" THEN PairError(e.raised)
      ELSE Pair(s.root, e.root) :
          s \in brentq(t_start, t_mid, x_coeffs, y_coeffs, l_coeffs),
          e \in brentq(t_mid, t_end, x_coeffs, y_coeffs, l_coeffs) }

\* The default brackets of startendtime: -6.0, 0.0 and 6.0 hours.
DefaultBrackets == <<Hours(-6), 0, Hours(6)>>

(***************************************************************************)
(* SpecContact: startendtime called on its own.                            *)
(***************************************************************************)
\* X = 0.1 t, Y = 0.9, L = 0.05 with t in hours.
SymmetricCase == <<<<0, 416667, 0, 0>>, <<900000000, 0, 0, 0>>, <<50000000, 0, 0, 0>>>>

\* <<X, Y, L>>: the symmetric case; a shadow that never reaches the Earth;
\* one that never leaves it; one that leaves before the middle; one that
\* arrives after it; one that touches the limb at the middle; one that
\* turns round at the middle and has its contacts on a look of the
\* solver; one that passes early, with a growing radius.
ContactCases ==
    { SymmetricCase,
      <<<<0, 416667, 0, 0>>, <<2 * Nano, 0, 0, 0>>, <<50000000, 0, 0, 0>>>>,
      <<<<0, 0, 0, 0>>, <<500000000, 0, 0, 0>>, <<50000000, 0, 0, 0>>>>,
      <<<<-500000000, 1000000, 0, 0>>, <<0, 0, 0, 0>>, <<0, 0, 0, 0>>>>,
      <<<<500000000, 1000000, 0, 0>>, <<0, 0, 0, 0>>, <<0, 0, 0, 0>>>>,
      <<<<0, 1000000, 0, 0>>, <<Nano, 0, 0, 0>>, <<0, 0, 0, 0>>>>,
      <<<<0, 0, 1000, 0>>, <<0, 0, 0, 0>>, <<0, 0, 0, 0>>>>,
      <<<<200000000, 1250000, 0, 0>>, <<300000000, 0, 0, 0>>, <<540000000, 10000, 0, 0>>>> }
ContactBrackets ==
    { DefaultBrackets, <<Hours(-6), 0, Hours(3)>>, <<Hours(-3), Hours(1), Hours(6)>>,
      <<Hours(-2), Hours(-1), Hours(2)>>, <<Hours(-6), Hours(-1), Hours(6)>>,
      <<Hours(-4), 0, Hours(4)>>, <<Hours(-5), Hours(2), Hours(5)>> }

CsInit ==
    /\ \E c \in ContactCases, b \in ContactBrackets :
          cs = [pc |-> "call", x_coeffs |-> c[1], y_coeffs |-> c[2], l_coeffs |-> c[3],
                t_start |-> b[1], t_mid |-> b[2], t_end |-> b[3], result |-> NoPair]
    /\ AuxIdle /\ EngineIdle /\ CtIdle /\ PjIdle /\ GmIdle /\ MnIdle

StartEndTime ==
    /\ cs.pc = "call"
    /\ \E r \in startendtime(cs.x_coeffs, cs.y_coeffs, cs.l_coeffs,
                             cs.t_start, cs.t_mid, cs.t_end) :
          cs' = [cs EXCEPT !.pc = "done", !.result = r]
    /\ UNCHANGED <<auxVars, engineVars, ct, pj, gm, mn>>

CsNext == StartEndTime
SpecContact == CsInit /\ [][CsNext]_vars

(***************************************************************************)
(* main.py from the fitted polynomials on: the maximum, the contacts and   *)
(* the path sweep.  Times are offsets from the reference hour in units of  *)
(* 15 seconds.  lat_max and lon_max are kept as the kind of the result of  *)
(* coords, which is all the code below asks of them, and a point of the    *)
(* path is kept as the time it was computed at.                            *)
(***************************************************************************)
\* Lines 100-108 and 158: the reference hour is the hour nearest to the
\* maximum, and decimal_time_tt the offset of the maximum from it.
decimal_time_tt(minute, second) ==
    IF minute >= 30 THEN -((3600 - (minute * 60 + second)) \div 15)
    ELSE (minute * 60 + second) \div 15

\* step_hours = decimal_hours(0, 0, step_seconds), with step_seconds = 60
step_hours == 60 \div 15

\* path_lats.append(lat) and path_lons.append(lon) under their guard,
\* with the guard not passed.
sweep_append_always(path, r, point) == Append(path, point)

\* if lat is not None and lon is not None: path.append(...)
sweep_append(path, r, point) ==
    IF r.kind = "pair" THEN Append(path, point) ELSE path

\* An event as the fit hands it over: the shadow axis moves along x at
\* speed v and passes the Earth's centre at distance |g| at the maximum;
\* the declination is 0 and the radii l1 and l2 are constant.
Event(v, g, l1, l2, minute, second) ==
    [X_poly |-> <<-(v * decimal_time_tt(minute, second)), v, 0, 0>>,
     Y_poly |-> <<g, 0, 0, 0>>,
     D_poly |-> <<0, 0, 0, 0>>,
     Micro_poly |-> <<30, 0, 0, 0>>,
     L1_poly |-> <<l1, 0, 0, 0>>,
     L2_poly |-> <<l2, 0, 0, 0>>,
     delta_t_sec |-> 69,
     minute |-> minute, second |-> second]

\* The umbra leaves the Earth at the reference hour exactly, 25 minutes
\* after the maximum: 0.1262^2 + 0.9914025^2 = 0.9994025^2.
LeavingAtReferenceHour == Event(1262000, 991402500, 540000000, -597500, 35, 0)

MainEvents ==
    { Event(1250000, 300000000, 540000000, -10000000, 17, 0),
      Event(1250000, 300000000, 540000000, -10000000, 30, 0),
      Event(1250000, 300000000, 540000000, -10000000, 29, 45),
      Event(1250000, -600000000, 550000000, 10000000, 45, 30),
      LeavingAtReferenceHour,
      Event(1262000, 991402500, 540000000, -597500, 30, 0),
      Event(1250000, 1200000000, 540000000, -10000000, 10, 0),
      Event(1250000, 1600000000, 540000000, -10000000, 10, 0) }

MnInit ==
    /\ \E e \in MainEvents :
          mn = [pc |-> "max", event |-> e, decimal_time_tt |-> 0,
                max_location |-> "pending", pen |-> NoPair, umb |-> NoPair,
                current_time |-> 0, path_lats |-> <<>>, path_lons |-> <<>>,
                samples |-> <<>>]
    /\ AuxIdle /\ EngineIdle /\ CtIdle /\ PjIdle /\ GmIdle /\ CsIdle

\* coords of the event under way at time t
MnCoords(t) ==
    psecentralcoords_coords(mn.event.X_poly, mn.event.Y_poly, mn.event.D_poly,
                            mn.event.Micro_poly, mn.event.delta_t_sec, t)

\* Lines 158-179: the offset of the maximum and the point under it.
MainMaximum ==
    /\ mn.pc = "max"
    /\ LET t == decimal_time_tt(mn.event.minute, mn.event.second) IN
       \E r \in MnCoords(t) :
          mn' = [mn EXCEPT !.decimal_time_tt = t,
                           !.max_location = r.kind,
                           !.pc = IF r.kind = "ValueError" THEN "raised" ELSE "pen"]
    /\ UNCHANGED <<auxVars, engineVars, ct, pj, gm, cs>>

\* Lines 191-198: the penumbral contacts.
MainPenumbra ==
    /\ mn.pc = "pen"
    /\ \E p \in startendtime(mn.event.X_poly, mn.event.Y_poly, mn.event.L1_poly,
                             DefaultBrackets[1], DefaultBrackets[2], DefaultBrackets[3]) :
          mn' = [mn EXCEPT !.pen = p,
                           !.pc = IF p.raised = "none" THEN "umb" ELSE "raised"]
    /\ UNCHANGED <<auxVars, engineVars, ct, pj, gm, cs>>

\* Lines 204-227: the umbral contacts when the maximum has a point under
\* it, and the start of the sweep.
MainUmbra ==
    /\ mn.pc = "umb"
    /\ IF mn.max_location = "pair"
       THEN \E u \in startendtime(mn.event.X_poly, mn.event.Y_poly, mn.event.L2_poly,
                                  DefaultBrackets[1], DefaultBrackets[2], DefaultBrackets[3]) :
               mn' = [mn EXCEPT !.umb = u,
                                !.current_time = mn.pen.start_time,
                                !.pc = IF u.raised = "none" THEN "sweep" ELSE "raised"]
       ELSE mn' = [mn EXCEPT !.pc = "done"]
    /\ UNCHANGED <<auxVars, engineVars, ct, pj, gm, cs>>

\* Lines 229-243: one pass of the while loop.
SweepStep ==
    /\ mn.pc = "sweep"
    /\ mn.current_time < mn.pen.end_time
    /\ LET t == mn.current_time + step_hours IN
       \E r \in MnCoords(t) :
          mn' = [mn EXCEPT !.current_time = t,
                           !.path_lats = IF r.kind = "ValueError" THEN @
                                         ELSE sweep_append(@, r, t),
                           !.path_lons = IF r.kind = "ValueError" THEN @
                                         ELSE sweep_append(@, r, t),
                           !.samples = Append(@, [t |-> t, kind |-> r.kind]),
                           !.pc = IF r.kind = "ValueError" THEN "raised" ELSE "sweep"]
    /\ UNCHANGED <<auxVars, engineVars, ct, pj, gm, cs>>

\* Line 229: the while condition fails and the path goes to the plot.
SweepEnd ==
    /\ mn.pc = "sweep"
    /\ ~(mn.current_time < mn.pen.end_time)
    /\ mn' = [mn EXCEPT !.pc = "plot"]
    /\ UNCHANGED <<auxVars, engineVars, ct, pj, gm, cs>>

MnNext == MainMaximum \/ MainPenumbra \/ MainUmbra \/ SweepStep \/ SweepEnd
SpecMain == MnInit /\ [][MnNext]_vars

(***************************************************************************)
(* psebessel.compute_mu.  The two hour angles come from besselian_find,    *)
(* which reduces them modulo a full turn; they are whole degrees here.     *)
(***************************************************************************)
\* dH = (H1 - H0 + 180) % 360 - 180 ; mu = dH / (dt_seconds / 3600)
compute_mu(H0, H1, dt_seconds) ==
    LET dH == ((H1 - H0 + 180) % 360) - 180
    IN  [H0 |-> H0, dH |-> dH, mu |-> (dH * 3600) \div dt_seconds]

HourAnglesAtT0 == {0, 1, 90, 179, 180, 181, 270, 359}
HourAnglesAtT1 == 0..359

HuInit ==
    /\ \E H0 \in HourAnglesAtT0, H1 \in HourAnglesAtT1 :
          hu = [pc |-> "call", H0 |-> H0, H1 |-> H1, dH |-> 0, mu |-> 0]
    /\ EngineIdle /\ GeoIdle /\ FtIdle /\ RfIdle /\ EqIdle /\ CnIdle /\ LpIdle /\ AlIdle

ComputeMu ==
    /\ hu.pc = "call"
    /\ LET r == compute_mu(hu.H0, hu.H1, 1)
       IN  hu' = [hu EXCEPT !.pc = "done", !.dH = r.dH, !.mu = r.mu]
    /\ UNCHANGED <<engineVars, geoVars, ft, rf, eq, cn, lp, al>>

HuNext == ComputeMu
SpecMu == HuInit /\ [][HuNext]_vars

(***************************************************************************)
(* psebessel.find_besselian_polynomial and fit_hour_angle_polynomial.      *)
(* The least-squares solution of A c = b, for A of full column rank, is    *)
(* the solution of (A^T A) c = A^T b; it is computed here by Cramer's rule *)
(* as four numerators over one denominator.  Both are whole numbers for    *)
(* whole samples, and a coefficient is a multiple of 1 / den, so that two  *)
(* coefficients within 1e-9 of each other are equal.                       *)
(***************************************************************************)
\* The matrix A of both functions, row by row as written in the source.
VandermondeRows ==
    << <<1, -2, 4, 8>>,
       <<1, -1, 1, -1>>,
       <<1, 0, 0, 0>>,
       <<1, 1, 1, 1>>,
       <<1, 2, 4, 8>> >>

RECURSIVE SumTo(_, _)
\* f[1] + ... + f[n]
SumTo(f, n) == IF n = 0 THEN 0 ELSE f[n] + SumTo(f, n - 1)

\* A^T A and A^T b
NormalMatrix(A) ==
    [i \in 1..Len(A[1]) |->
        [j \in 1..Len(A[1]) |-> SumTo([r \in 1..Len(A) |-> A[r][i] * A[r][j]], Len(A))]]
NormalVector(A, b) ==
    [i \in 1..Len(A[1]) |-> SumTo([r \in 1..Len(A) |-> A[r][i] * b[r]], Len(A))]

\* M without its first row and without column j
Minor(M, j) ==
    [r \in 1..(Len(M) - 1) |->
        [c \in 1..(Len(M) - 1) |-> M[r + 1][IF c < j THEN c ELSE c + 1]]]

RECURSIVE Det(_)
Det(M) ==
    IF Len(M) = 1 THEN M[1][1]
    ELSE SumTo([j \in 1..Len(M) |->
                   (IF j % 2 = 1 THEN 1 ELSE -1) * M[1][j] * Det(Minor(M, j))], Len(M))

\* M with column k replaced by v
WithColumn(M, k, v) ==
    [r \in 1..Len(M) |-> [c \in 1..Len(M) |-> IF c = k THEN v[r] ELSE M[r][c]]]

\* coeffs, _, _, _ = np.linalg.lstsq(A, b, rcond=None)
np_linalg_lstsq(A, b) ==
    LET N == NormalMatrix(A)
        v == NormalVector(A, b)
    IN  [num |-> [k \in 1..Len(N) |-> Det(WithColumn(N, k, v))], den |-> Det(N)]

find_besselian_polynomial(val_m2h, val_m1h, val_0h, val_p1h, val_p2h) ==
    np_linalg_lstsq(VandermondeRows, <<val_m2h, val_m1h, val_0h, val_p1h, val_p2h>>)

\* returns (coeffs, mu) with mu = coeffs[1], the second coefficient
fit_hour_angle_polynomial(H_m2h, H_m1h, H_0h, H_p1h, H_p2h) ==
    LET coeffs == np_linalg_lstsq(VandermondeRows, <<H_m2h, H_m1h, H_0h, H_p1h, H_p2h>>)
    IN  [coeffs |-> coeffs, mu |-> coeffs.num[2]]

\* The cubics that are sampled, and the hours of the five samples.
CubicCoefficients == {-1, 0, 1, 2}
SampleHours == <<-2, -1, 0, 1, 2>>
CubicAt(c, t) == c[1] + c[2] * t + c[3] * t * t + c[4] * t * t * t
NoFit == [num |-> <<0, 0, 0, 0>>, den |-> 0]

FtInit ==
    /\ \E c \in CubicCoefficients \X CubicCoefficients \X CubicCoefficients \X CubicCoefficients :
          ft = [pc |-> "call", cubic |-> c,
                samples |-> [i \in 1..5 |-> CubicAt(c, SampleHours[i])],
                coeffs |-> NoFit, hour_angle |-> NoFit, mu |-> 0]
    /\ EngineIdle /\ GeoIdle /\ HuIdle /\ RfIdle /\ EqIdle /\ CnIdle /\ LpIdle /\ AlIdle

FitElement ==
    /\ ft.pc = "call"
    /\ ft' = [ft EXCEPT !.pc = "element",
                        !.coeffs = find_besselian_polynomial(ft.samples[1], ft.samples[2],
                                       ft.samples[3], ft.samples[4], ft.samples[5])]
    /\ UNCHANGED <<engineVars, geoVars, hu, rf, eq, cn, lp, al>>

FitHourAngle ==
    /\ ft.pc = "element"
    /\ LET r == fit_hour_angle_polynomial(ft.samples[1], ft.samples[2], ft.samples[3],
                                          ft.samples[4], ft.samples[5])
       IN  ft' = [ft EXCEPT !.pc = "done", !.hour_angle = r.coeffs, !.mu = r.mu]
    /\ UNCHANGED <<engineVars, geoVars, hu, rf, eq, cn, lp, al>>

FtNext == FitElement \/ FitHourAngle
SpecFit == FtInit /\ [][FtNext]_vars

(***************************************************************************)
(* main.py, lines 100-108 and 158: the reference hour of the polynomials   *)
(* and the offset of the maximum from it, one loop iteration per step.     *)
(***************************************************************************)
\* A mutation of the test of line 102: the half hour itself rounds down.
rounds_up_after_half(t) == t.minute > 30

\* if dt_max_tt.minute >= 30
rounds_up(t) == t.minute >= 30

\* The TT maxima the rounding starts from: late and early hours of days at
\* a year end, a month end, a leap day and the two sides of the cutover.
ReferenceDates ==
    { <<1582, 10, 4>>, <<1582, 10, 15>>, <<1999, 12, 31>>, <<2024, 2, 28>>,
      <<2023, 2, 28>>, <<2024, 4, 8>> }
ReferenceClockTimes ==
    { <<0, 0>>, <<0, 1>>, <<17, 23>>, <<29, 59>>, <<30, 0>>, <<45, 10>>, <<59, 59>> }
ReferenceMaxima ==
    { datetime(dte[1], dte[2], dte[3], h, ms[1], ms[2]) :
        dte \in ReferenceDates, h \in {0, 18, 23}, ms \in ReferenceClockTimes }

RfInit ==
    /\ \E t \in ReferenceMaxima :
          rf = [pc |-> "copy", dt_max_tt |-> t, dt_max_rounded |-> NoInstant,
                i |-> 0, a |-> NoInstant, seconds |-> 0, total_seconds |-> 0]
    /\ EngineIdle /\ GeoIdle /\ HuIdle /\ FtIdle /\ EqIdle /\ CnIdle /\ LpIdle /\ AlIdle

\* dt_max_rounded = dt_max_tt.copy(), and the call of sub_minutes
RfCopy ==
    /\ rf.pc = "copy"
    /\ rf' = [rf EXCEPT !.dt_max_rounded = copy(rf.dt_max_tt),
                        !.i = rf.dt_max_tt.minute, !.pc = "sub_minutes"]
    /\ UNCHANGED <<engineVars, geoVars, hu, ft, eq, cn, lp, al>>

\* dt_max_rounded.sub_minutes(dt_max_tt.minute): one pass of its loop
RfSubMinute ==
    /\ rf.pc = "sub_minutes" /\ rf.i > 0
    /\ rf' = [rf EXCEPT !.dt_max_rounded = sub_minute(@), !.i = @ - 1]
    /\ UNCHANGED <<engineVars, geoVars, hu, ft, eq, cn, lp, al>>

\* sub_minutes returns, and the call of sub_seconds
RfSubMinutesReturn ==
    /\ rf.pc = "sub_minutes" /\ rf.i <= 0
    /\ rf' = [rf EXCEPT !.i = rf.dt_max_tt.second, !.pc = "sub_seconds"]
    /\ UNCHANGED <<engineVars, geoVars, hu, ft, eq, cn, lp, al>>

\* dt_max_rounded.sub_seconds(dt_max_tt.second): one pass of its loop
RfSubSecond ==
    /\ rf.pc = "sub_seconds" /\ rf.i > 0
    /\ rf' = [rf EXCEPT !.dt_max_rounded = sub_second(@), !.i = @ - 1]
    /\ UNCHANGED <<engineVars, geoVars, hu, ft, eq, cn, lp, al>>

\* sub_seconds returns; add_hour() in the branch of the late half hour;
\* then line 158 enters datetime.__sub__ with a = other.copy()
RfAddHour ==
    /\ rf.pc = "sub_seconds" /\ rf.i <= 0
    /\ LET rounded == IF rounds_up(rf.dt_max_tt) THEN add_hour(rf.dt_max_rounded)
                      ELSE rf.dt_max_rounded
       IN  rf' = [rf EXCEPT !.dt_max_rounded = rounded,
                            !.a = copy(copy(rounded)),
                            !.seconds = 0,
                            !.pc = IF dt_ge(rf.dt_max_tt, rounded)
                                   THEN "while_lt" ELSE "while_gt"]
    /\ UNCHANGED <<engineVars, geoVars, hu, ft, eq, cn, lp, al>>

\* while a < b: a.add_second(); seconds += 1
RfForwardIter ==
    /\ rf.pc = "while_lt" /\ dt_lt(rf.a, rf.dt_max_tt)
    /\ rf' = [rf EXCEPT !.a = add_second(@), !.seconds = @ + 1]
    /\ UNCHANGED <<engineVars, geoVars, hu, ft, eq, cn, lp, al>>

\* while a > b: a.sub_second(); seconds -= 1
RfBackwardIter ==
    /\ rf.pc = "while_gt" /\ dt_gt(rf.a, rf.dt_max_tt)
    /\ rf' = [rf EXCEPT !.a = sub_second(@), !.seconds = @ - 1]
    /\ UNCHANGED <<engineVars, geoVars, hu, ft, eq, cn, lp, al>>

\* return timedelta(0, 0, 0, seconds), whose total_seconds line 158 reads
RfReturn ==
    /\ \/ rf.pc = "while_lt" /\ ~ dt_lt(rf.a, rf.dt_max_tt)
       \/ rf.pc = "while_gt" /\ ~ dt_gt(rf.a, rf.dt_max_tt)
    /\ rf' = [rf EXCEPT !.total_seconds = timedelta(0, 0, 0, rf.seconds), !.pc = "done"]
    /\ UNCHANGED <<engineVars, geoVars, hu, ft, eq, cn, lp, al>>

RfNext ==
    \/ RfCopy \/ RfSubMinute \/ RfSubMinutesReturn \/ RfSubSecond \/ RfAddHour
    \/ RfForwardIter \/ RfBackwardIter \/ RfReturn
SpecReference == RfInit /\ [][RfNext]_vars

(***************************************************************************)
(* SpecUnits: one add_minute, add_hour or add_day (or sub_) against as     *)
(* many single seconds applied to a copy of the same instant.  The seconds *)
(* are applied sixty to a step.                                            *)
(***************************************************************************)
UnitNames == {"minute", "hour", "day"}
SecondsIn(unit) ==
    CASE unit = "minute" -> 60 [] unit = "hour" -> 3600 [] unit = "day" -> 86400

\* self.add_<unit>() or self.sub_<unit>()
StepOnce(t, unit, adding) ==
    CASE unit = "minute" -> IF adding THEN add_minute(t) ELSE sub_minute(t)
      [] unit = "hour"   -> IF adding THEN add_hour(t) ELSE sub_hour(t)
      [] unit = "day"    -> IF adding THEN add_day(t) ELSE sub_day(t)

\* The instants a minute or an hour is stepped from, and the fewer ones a
\* day is stepped from.
UnitClockTimes == { <<0, 0, 0>>, <<23, 30, 15>>, <<23, 59, 59>> }
DayDates ==
    { <<1582, 10, 4>>, <<1582, 10, 15>>, <<1900, 2, 28>>, <<2024, 2, 28>>,
      <<2024, 2, 29>>, <<2024, 3, 1>>, <<2023, 12, 31>>, <<2024, 1, 1>> }
DayClockTimes == { <<0, 0, 0>>, <<23, 59, 59>> }
UnitStarts(unit) ==
    IF unit = "day"
    THEN { datetime(dte[1], dte[2], dte[3], hms[1], hms[2], hms[3]) :
             dte \in DayDates, hms \in DayClockTimes }
    ELSE { datetime(dte[1], dte[2], dte[3], hms[1], hms[2], hms[3]) :
             dte \in EdgeDates, hms \in UnitClockTimes }

EqInit ==
    /\ \E unit \in UnitNames, adding \in BOOLEAN : \E t \in UnitStarts(unit) :
          eq = [pc |-> "call", start |-> t, unit |-> unit, adding |-> adding,
                once |-> NoInstant, by_seconds |-> copy(t), applied |-> 0]
    /\ EngineIdle /\ GeoIdle /\ HuIdle /\ FtIdle /\ RfIdle /\ CnIdle /\ LpIdle /\ AlIdle

\* The one coarse step.
EqOnce ==
    /\ eq.pc = "call"
    /\ eq' = [eq EXCEPT !.once = StepOnce(eq.start, eq.unit, eq.adding), !.pc = "seconds"]
    /\ UNCHANGED <<engineVars, geoVars, hu, ft, rf, cn, lp, al>>

\* Sixty more single seconds on the copy.
EqSeconds ==
    /\ eq.pc = "seconds" /\ eq.applied < SecondsIn(eq.unit)
    /\ eq' = [eq EXCEPT !.by_seconds = IF eq.adding THEN add_seconds(@, 60)
                                       ELSE sub_seconds(@, 60),
                        !.applied = @ + 60]
    /\ UNCHANGED <<engineVars, geoVars, hu, ft, rf, cn, lp, al>>

\* All the seconds of the unit have been applied.
EqDone ==
    /\ eq.pc = "seconds" /\ eq.applied >= SecondsIn(eq.unit)
    /\ eq' = [eq EXCEPT !.pc = "done"]
    /\ UNCHANGED <<engineVars, geoVars, hu, ft, rf, cn, lp, al>>

EqNext == EqOnce \/ EqSeconds \/ EqDone
SpecUnits == EqInit /\ [][EqNext]_vars

(***************************************************************************)
(* SpecCounts: the counted steps called with a count that may be zero or   *)
(* negative, and datetime + timedelta with a duration of that many seconds.*)
(***************************************************************************)
CountedMethods ==
    { "add_seconds", "add_minutes", "add_hours", "add_days",
      "sub_seconds", "sub_minutes", "sub_hours", "sub_days" }
Counts == {-2, -1, 0, 1}

\* self.<method>(n), as the instant self holds afterwards
Counted(method, t, n) ==
    CASE method = "add_seconds" -> add_seconds(t, n)
      [] method = "add_minutes" -> add_minutes(t, n)
      [] method = "add_hours"   -> add_hours(t, n)
      [] method = "add_days"    -> add_days(t, n)
      [] method = "sub_seconds" -> sub_seconds(t, n)
      [] method = "sub_minutes" -> sub_minutes(t, n)
      [] method = "sub_hours"   -> sub_hours(t, n)
      [] method = "sub_days"    -> sub_days(t, n)

CnInit ==
    /\ \E t \in EdgeInstants, n \in Counts, method \in CountedMethods \cup {"__add__"} :
          cn = [pc |-> "call", self |-> t, n |-> n, method |-> method, after |-> NoInstant]
    /\ EngineIdle /\ GeoIdle /\ HuIdle /\ FtIdle /\ RfIdle /\ EqIdle /\ LpIdle /\ AlIdle

\* self.<method>(n)
CallCounted ==
    /\ cn.pc = "call" /\ cn.method \in CountedMethods
    /\ cn' = [cn EXCEPT !.after = Counted(cn.method, cn.self, cn.n), !.pc = "done"]
    /\ UNCHANGED <<engineVars, geoVars, hu, ft, rf, eq, lp, al>>

\* self + timedelta(0, 0, 0, n)
CallPlus ==
    /\ cn.pc = "call" /\ cn.method = "__add__"
    /\ cn' = [cn EXCEPT !.after = dt_add(cn.self, timedelta(0, 0, 0, cn.n)), !.pc = "done"]
    /\ UNCHANGED <<engineVars, geoVars, hu, ft, rf, eq, lp, al>>

CnNext == CallCounted \/ CallPlus
SpecCounts == CnInit /\ [][CnNext]_vars

(***************************************************************************)
(* SpecLeap: one day forward or backward around the end of February, in    *)
(* years before and after the cutover.                                     *)
(***************************************************************************)
LeapYears ==
    { -4, -1, 0, 4, 100, 400, 1000, 1500, 1580, 1581, 1582, 1600, 1700, 1900,
      2000, 2023, 2024, 2100 }
\* The days from 27 February to 1 March of a year.
AroundFebruaryEnd(year) ==
    { <<2, dd>> : dd \in 27..max_day_in_month(year, 2) } \cup { <<3, 1>> }

LpInit ==
    /\ \E year \in LeapYears, hms \in {<<0, 0, 0>>, <<23, 59, 59>>}, adding \in BOOLEAN :
          \E md \in AroundFebruaryEnd(year) :
              lp = [pc |-> "call", adding |-> adding,
                    date |-> datetime(year, md[1], md[2], hms[1], hms[2], hms[3]),
                    february |-> 0, after |-> NoInstant]
    /\ EngineIdle /\ GeoIdle /\ HuIdle /\ FtIdle /\ RfIdle /\ EqIdle /\ CnIdle /\ AlIdle

\* date.add_day()
LpAddDay ==
    /\ lp.pc = "call" /\ lp.adding
    /\ lp' = [lp EXCEPT !.after = add_day(lp.date),
                        !.february = max_day_in_month(lp.date.year, 2),
                        !.pc = "done"]
    /\ UNCHANGED <<engineVars, geoVars, hu, ft, rf, eq, cn, al>>

\* date.sub_day()
LpSubDay ==
    /\ lp.pc = "call" /\ ~ lp.adding
    /\ lp' = [lp EXCEPT !.after = sub_day(lp.date),
                        !.february = max_day_in_month(lp.date.year, 2),
                        !.pc = "done"]
    /\ UNCHANGED <<engineVars, geoVars, hu, ft, rf, eq, cn, al>>

LpNext == LpAddDay \/ LpSubDay
SpecLeap == LpInit /\ [][LpNext]_vars

(***************************************************************************)
(* SpecAlias: the instants as objects.  heap[r] is the value of the        *)
(* datetime object r and deltas[k] the total_seconds of the timedelta      *)
(* object k; the caller holds the objects 1 and 2 and the timedelta 1, and *)
(* passes them (possibly one object twice) to an operator or a search.     *)
(***************************************************************************)
MaxScan == 3
AliasOps == {"add", "sub_timedelta", "sub_datetime", "sefinder", "senarrow"}
AliasInstants ==
    { datetime(1582, 10, 4, 23, 59, 58), datetime(1582, 10, 4, 23, 59, 59),
      datetime(1582, 10, 15, 0, 0, 0), datetime(1582, 10, 15, 0, 0, 1) }
AliasDeltas == {-2, -1, 0, 1, 2}
\* round(float(t.delta_t)) of the instants of AliasInstants is not computed
\* here: any of these values.
AliasDeltaT == {-3, 0, 57}

\* A mutation of copy: the same object is returned.
copy_same_object(heap, ref) == [heap |-> heap, ref |-> ref]

\* self.copy(): a new object with the fields of self.
copy_of(heap, ref) == [heap |-> Append(heap, copy(heap[ref])), ref |-> Len(heap) + 1]

\* self + td, with total the total_seconds of td.
datetime_add(heap, ref, total) ==
    LET result == copy_of(heap, ref)
    IN  [heap |-> [result.heap EXCEPT ![result.ref] =
                       IF total >= 0 THEN add_seconds(@, total)
                       ELSE sub_seconds(@, -total)],
         ref |-> result.ref]

AlInit ==
    /\ \E o \in AliasOps, x \in AliasInstants, y \in AliasInstants,
          s \in 1..2, r \in 1..2, total \in AliasDeltas, tt \in BOOLEAN :
          al = [pc |-> "call", op |-> o, heap |-> <<x, y>>, deltas |-> <<total>>,
                self |-> s, other |-> r, tt |-> (tt /\ o = "senarrow"),
                before |-> <<x, y>>, before_delta |-> total,
                result |-> 0, a |-> 0, b |-> 0, seconds |-> 0,
                current_time |-> 0, timestamps |-> <<>>, scanned |-> 0,
                returned |-> NoInstant]
    /\ EngineIdle /\ GeoIdle /\ HuIdle /\ FtIdle /\ RfIdle /\ EqIdle /\ CnIdle /\ LpIdle

\* result = self + td
AlAdd ==
    /\ al.pc = "call" /\ al.op = "add"
    /\ LET r == datetime_add(al.heap, al.self, al.deltas[1])
       IN  al' = [al EXCEPT !.heap = r.heap, !.result = r.ref, !.pc = "done"]
    /\ UNCHANGED <<engineVars, geoVars, hu, ft, rf, eq, cn, lp>>

\* result = self - td, which is self + (-td) with a new timedelta.
AlSubTimedelta ==
    /\ al.pc = "call" /\ al.op = "sub_timedelta"
    /\ LET negated == Append(al.deltas, -al.deltas[1])
           r == datetime_add(al.heap, al.self, negated[Len(negated)])
       IN  al' = [al EXCEPT !.deltas = negated, !.heap = r.heap,
                            !.result = r.ref, !.pc = "done"]
    /\ UNCHANGED <<engineVars, geoVars, hu, ft, rf, eq, cn, lp>>

\* self - other: a = other.copy(); b = self.copy(); seconds = 0.
AlSubCopy ==
    /\ al.pc = "call" /\ al.op = "sub_datetime"
    /\ LET ca == copy_of(al.heap, al.other)
           cb == copy_of(ca.heap, al.self)
       IN  al' = [al EXCEPT !.heap = cb.heap, !.a = ca.ref, !.b = cb.ref,
                            !.seconds = 0,
                            !.pc = IF dt_ge(cb.heap[cb.ref], cb.heap[ca.ref])
                                   THEN "forward" ELSE "backward"]
    /\ UNCHANGED <<engineVars, geoVars, hu, ft, rf, eq, cn, lp>>

\* while a < b: a.add_second(); seconds += 1
AlSubForward ==
    /\ al.pc = "forward" /\ al.seconds < MaxSpan
    /\ dt_lt(al.heap[al.a], al.heap[al.b])
    /\ al' = [al EXCEPT !.heap[al.a] = add_second(@), !.seconds = @ + 1]
    /\ UNCHANGED <<engineVars, geoVars, hu, ft, rf, eq, cn, lp>>

\* while a > b: a.sub_second(); seconds -= 1
AlSubBackward ==
    /\ al.pc = "backward" /\ al.seconds > -MaxSpan
    /\ dt_gt(al.heap[al.a], al.heap[al.b])
    /\ al' = [al EXCEPT !.heap[al.a] = sub_second(@), !.seconds = @ - 1]
    /\ UNCHANGED <<engineVars, geoVars, hu, ft, rf, eq, cn, lp>>

\* return timedelta(0, 0, 0, seconds)
AlSubReturn ==
    /\ \/ al.pc = "forward" /\ ~ dt_lt(al.heap[al.a], al.heap[al.b])
       \/ al.pc = "backward" /\ ~ dt_gt(al.heap[al.a], al.heap[al.b])
    /\ al' = [al EXCEPT !.deltas = Append(@, al.seconds),
                        !.result = Len(al.deltas) + 1, !.pc = "done"]
    /\ UNCHANGED <<engineVars, geoVars, hu, ft, rf, eq, cn, lp>>

\* sefinder(start_time, end_time, step): current_time = start_time.copy()
AlFinderCopy ==
    /\ al.pc = "call" /\ al.op = "sefinder"
    /\ LET c == copy_of(al.heap, al.self)
       IN  al' = [al EXCEPT !.heap = c.heap, !.current_time = c.ref, !.pc = "loop"]
    /\ UNCHANGED <<engineVars, geoVars, hu, ft, rf, eq, cn, lp>>

\* senarrow(starttime, endtime, tt): current_time = starttime.copy()
AlNarrowCopy ==
    /\ al.pc = "call" /\ al.op = "senarrow"
    /\ LET c == copy_of(al.heap, al.self)
       IN  al' = [al EXCEPT !.heap = c.heap, !.current_time = c.ref, !.pc = "loop"]
    /\ UNCHANGED <<engineVars, geoVars, hu, ft, rf, eq, cn, lp>>

\* sefinder, a sample outside the threshold: current_time = current_time + step
AlFinderStep ==
    /\ al.pc = "loop" /\ al.op = "sefinder" /\ al.scanned < MaxScan
    /\ dt_le(al.heap[al.current_time], al.heap[al.other])
    /\ LET r == datetime_add(al.heap, al.current_time, al.deltas[1])
       IN  al' = [al EXCEPT !.heap = r.heap, !.current_time = r.ref,
                            !.scanned = @ + 1]
    /\ UNCHANGED <<engineVars, geoVars, hu, ft, rf, eq, cn, lp>>

\* sefinder, a sample within the threshold: the two estimates are copies of
\* the cursor, moved by a minute and by three hours; the call of senarrow
\* with two arguments raises TypeError.
AlFinderCandidate ==
    /\ al.pc = "loop" /\ al.op = "sefinder" /\ al.scanned < MaxScan
    /\ dt_le(al.heap[al.current_time], al.heap[al.other])
    /\ LET start_estimate == copy_of(al.heap, al.current_time)
           moved_start ==
               [start_estimate.heap EXCEPT ![start_estimate.ref] = sub_minute(@)]
           end_estimate == copy_of(moved_start, al.current_time)
           moved_end == [end_estimate.heap EXCEPT ![end_estimate.ref] = add_hours(@, 3)]
       IN  al' = [al EXCEPT !.heap = moved_end, !.a = start_estimate.ref,
                            !.b = end_estimate.ref, !.pc = "TypeError"]
    /\ UNCHANGED <<engineVars, geoVars, hu, ft, rf, eq, cn, lp>>

\* sefinder: the cursor is past end_time.
AlFinderReturn ==
    /\ al.pc = "loop" /\ al.op = "sefinder"
    /\ ~ dt_le(al.heap[al.current_time], al.heap[al.other])
    /\ al' = [al EXCEPT !.pc = "done"]
    /\ UNCHANGED <<engineVars, geoVars, hu, ft, rf, eq, cn, lp>>

\* senarrow, one second of the window: the sample is kept (a copy of the
\* cursor is appended) or not, and current_time.add_second().
AlNarrowStep ==
    /\ al.pc = "loop" /\ al.op = "senarrow" /\ al.scanned < MaxSpan
    /\ dt_le(al.heap[al.current_time], al.heap[al.other])
    /\ \E within \in BOOLEAN :
          LET c == IF within THEN copy_of(al.heap, al.current_time)
                   ELSE [heap |-> al.heap, ref |-> 0]
          IN  al' = [al EXCEPT !.heap = [c.heap EXCEPT ![al.current_time] = add_second(@)],
                               !.timestamps = IF within THEN Append(@, c.ref) ELSE @,
                               !.scanned = @ + 1]
    /\ UNCHANGED <<engineVars, geoVars, hu, ft, rf, eq, cn, lp>>

\* senarrow, after the window: None, or min_time.copy(), with delta_t
\* added when tt is set.
AlNarrowReturn ==
    /\ al.pc = "loop" /\ al.op = "senarrow"
    /\ ~ dt_le(al.heap[al.current_time], al.heap[al.other])
    /\ IF al.timestamps = <<>>
       THEN al' = [al EXCEPT !.pc = "none"]
       ELSE \E i \in DOMAIN al.timestamps, delta_t \in AliasDeltaT :
               LET min_time == al.timestamps[i]
                   c1 == copy_of(al.heap, min_time)
                   c2 == copy_of(c1.heap, min_time)
                   r == IF al.tt
                        THEN datetime_add(c2.heap, c2.ref, delta_t)
                        ELSE c2
               IN  al' = [al EXCEPT !.heap = r.heap, !.result = r.ref,
                                    !.deltas = IF al.tt THEN Append(@, delta_t) ELSE @,
                                    !.returned = r.heap[r.ref], !.pc = "done"]
    /\ UNCHANGED <<engineVars, geoVars, hu, ft, rf, eq, cn, lp>>

AlNext ==
    \/ AlAdd \/ AlSubTimedelta
    \/ AlSubCopy \/ AlSubForward \/ AlSubBackward \/ AlSubReturn
    \/ AlFinderCopy \/ AlFinderStep \/ AlFinderCandidate \/ AlFinderReturn
    \/ AlNarrowCopy \/ AlNarrowStep \/ AlNarrowReturn
SpecAlias == AlInit /\ [][AlNext]_vars

(***************************************************************************)
(* Claims about the calendar.                                              *)
(***************************************************************************)
CutoverEve == datetime(1582, 10, 4, 23, 59, 59)
CutoverDay == datetime(1582, 10, 15, 0, 0, 0)

\* C6: after every single add_*/sub_* step from a canonical instant the
\* fields are in range (second and minute 0..59, hour 0..23, month 1..12,
\* day 1..max_day_in_month) and the date is never 5..14 October 1582.
C6_CanonicalAfterEveryStep == Canonical(d)

\* The last of MaxOps steps went one day backward from 15 October 1582 and
\* landed on 4 October.
C6_Witness ==
    /\ op = "sub_day" /\ prev.year = 1582 /\ prev.month = 10 /\ prev.day = 15
    /\ d.day = 4 /\ nops = MaxOps

\* C7: one second forward from 1582-10-04T23:59:59 is 1582-10-15T00:00:00.
C7_CutoverStep ==
    (op = "add_second" /\ prev = CutoverEve) => d = CutoverDay

C7_Witness == op = "add_second" /\ prev = CutoverEve /\ d = CutoverDay

\* C8: for a canonical instant and n >= 0, add_seconds(n) followed by
\* sub_seconds(n) leaves the instant equal to its original value, also when
\* the steps cross the 1582 cutover.
C8_RoundTrip == rt.pc = "done" => rt.d = rt.d0

\* A round trip of at least two seconds that started on the eve of the
\* cutover, crossed it forward and came back over it.
C8_Witness ==
    /\ rt.pc = "done" /\ rt.n >= 2 /\ rt.d0 = CutoverEve /\ rt.d = CutoverEve


\* Fields in range, the cutover gap aside (normalize() does not adjust it).
InRange(t) ==
    /\ 0 <= t.second /\ t.second <= 59
    /\ 0 <= t.minute /\ t.minute <= 59
    /\ 0 <= t.hour /\ t.hour <= 23
    /\ 1 <= t.month /\ t.month <= 12
    /\ 1 <= t.day /\ t.day <= max_day_in_month(t.year, t.month)

\* A date whose time of day is in range and whose day exists in every month.
MonthOnlyExcess(t) ==
    /\ 0 <= t.second /\ t.second <= 59
    /\ 0 <= t.minute /\ t.minute <= 59
    /\ 0 <= t.hour /\ t.hour <= 23
    /\ 1 <= t.day /\ t.day <= 28

\* Exact carry of months into years: month 14 of Y is month 2 of Y + 1,
\* month 0 of Y is month 12 of Y - 1.
CarryMonths(t) ==
    [t EXCEPT !.year = t.year + ((t.month - 1) \div 12),
              !.month = ((t.month - 1) % 12) + 1]

\* C9: for any integer fields normalize() ends with every field in range
\* and on the instant exact carry/borrow gives: where only the month is out
\* of range, the months are carried into the years and the day is kept.
C9_NormalizeExact ==
    nm.pc = "normalized" =>
        /\ InRange(nm.t)
        /\ MonthOnlyExcess(nm.raw) => nm.t = CarryMonths(nm.raw)

\* C10: for canonical a and b the difference r = b - a satisfies a + r = b,
\* with r >= 0 exactly when b >= a, also across the cutover gap, where
\* 1582-10-15T00:00:00 - 1582-10-04T23:59:59 is +1 second.
C10_DifferenceInverts ==
    /\ df.pc \in {"returned", "done"} =>
          /\ df.td >= 0 <=> dt_ge(df.self, df.other)
          /\ (df.self = CutoverDay /\ df.other = CutoverEve) => df.td = 1
          /\ (df.self = CutoverEve /\ df.other = CutoverDay) => df.td = -1
    /\ df.pc = "done" => dt_eq(df.result, df.self)

\* A negative difference taken backward over the cutover gap and added back.
C10_Witness ==
    /\ df.pc = "done" /\ df.td < -1
    /\ df.other.day = 15 /\ df.other.month = 10 /\ df.other.year = 1582
    /\ df.self.day = 4 /\ df.result = df.self

(***************************************************************************)
(* Claims about the search.                                                *)
(***************************************************************************)
\* The step just taken was a coarse sample within its threshold.
TookCandidate ==
    /\ Len(fd'.coarse) = Len(fd.coarse) + 1
    /\ fd'.coarse[Len(fd'.coarse)].sep <= fd'.coarse[Len(fd'.coarse)].thr

\* The step just taken was a coarse sample outside its threshold.
TookClear ==
    /\ Len(fd'.coarse) = Len(fd.coarse) + 1
    /\ fd'.coarse[Len(fd'.coarse)].sep > fd'.coarse[Len(fd'.coarse)].thr

\* C1: whenever the coarse sample at cursor c is within threshold, the
\* refinement runs over [c - 1 minute, c + 3 hours] and the search is back
\* in Scanning; a candidate never makes the search abort with an error.
C1_CandidateRefinedThenScanning ==
    [][TookCandidate =>
          /\ fd'.pc = "Scanning"
          /\ fd'.start_estimate = sub_minute(fd.current_time)
          /\ fd'.end_estimate = add_hours(fd.current_time, 3)]_vars

\* C2: after a coarse step that triggered a refinement the next cursor is
\* the old cursor + 27 days; after one with no candidate it is the old
\* cursor + the caller's step.
C2_NextCursor ==
    [][/\ TookCandidate => fd'.current_time = add_days(fd.current_time, 27)
       /\ TookClear => fd'.current_time = dt_add(fd.current_time, fd.step)]_vars

\* C3: with a step > 0 the search ends in Done: every step from Scanning
\* either takes a sample at a cursor <= end and moves the cursor strictly
\* forward, staying in Scanning, or finds the cursor > end and is Done.
C3_ReachesDone ==
    [][(fd.pc = "Scanning" /\ fd.step > 0 /\ fd' # fd) =>
          \/ /\ fd'.pc = "Scanning"
             /\ dt_le(fd.current_time, fd.end_time)
             /\ dt_lt(fd.current_time, fd'.current_time)
          \/ /\ fd'.pc = "Done"
             /\ dt_gt(fd.current_time, fd.end_time)]_vars

\* C5: a refinement window with no sample within threshold makes senarrow
\* return (None, None), and sefinder then prints nothing for that window
\* and goes on scanning instead of failing: after a candidate the search
\* has not failed, and it has printed at most the one line of a maximum.
C5_FalseStartContinues ==
    [][TookCandidate =>
          /\ fd'.pc # "TypeError"
          /\ Len(fd'.printed) \in {Len(fd.printed), Len(fd.printed) + 1}
          /\ fd'.pc = "Scanning"]_vars

\* The positions of the samples of the one-second scan that were within
\* their own threshold.
WithinSamples == { i \in 1 .. Len(nw.sampled) : nw.sampled[i].sep <= nw.sampled[i].thr }

\* The earliest of the within-threshold samples of smallest separation.
BestSample ==
    CHOOSE i \in WithinSamples :
        \A j \in WithinSamples :
            \/ nw.sampled[i].sep < nw.sampled[j].sep
            \/ nw.sampled[i].sep = nw.sampled[j].sep /\ i <= j

\* The samples are the seconds of [starttime, endtime], both ends included.
SamplesCoverWindow ==
    /\ dt_le(nw.starttime, nw.endtime) =>
          /\ Len(nw.sampled) >= 1
          /\ nw.sampled[1].at = nw.starttime
          /\ nw.sampled[Len(nw.sampled)].at = nw.endtime
    /\ dt_gt(nw.starttime, nw.endtime) => nw.sampled = << >>
    /\ \A i \in 1 .. Len(nw.sampled) - 1 :
          nw.sampled[i + 1].at = add_second(nw.sampled[i].at)

\* C4 as claimed: senarrow returns the smallest within-threshold separation
\* together with the instant at which that sample was taken.
C4_MinimumAtItsInstant ==
    (nw.pc = "returned" /\ WithinSamples # {}) =>
        /\ SamplesCoverWindow
        /\ nw.result.none = FALSE
        /\ nw.result.sep = nw.sampled[BestSample].sep
        /\ nw.result.date = isoformat(nw.sampled[BestSample].at)

\* C4 as amended: senarrow returns the smallest separation among the
\* one-second samples of [starttime, endtime] that are within their own
\* threshold, together with the ISO text of the instant of the earliest
\* such sample when tt is false, and of that instant moved by
\* round(delta_t) seconds when tt is true.
C4_MinimumAtItsInstantOrTT ==
    (nw.pc = "returned" /\ WithinSamples # {}) =>
        /\ SamplesCoverWindow
        /\ nw.result.none = FALSE
        /\ nw.result.sep = nw.sampled[BestSample].sep
        /\ nw.result.date =
              isoformat(IF nw.tt
                        THEN dt_add(nw.sampled[BestSample].at,
                                    PyRoundHalves(nw.delta_t))
                        ELSE nw.sampled[BestSample].at)

\* A return in TT mode with a delta-T that rounds away from zero, where the
\* minimum is tied between two within-threshold samples and a sample
\* outside its threshold is smaller than the minimum.
C4_Witness ==
    /\ nw.pc = "returned" /\ nw.tt /\ PyRoundHalves(nw.delta_t) # 0
    /\ nw.result.none = FALSE
    /\ \E i \in WithinSamples, j \in WithinSamples :
          i # j /\ nw.sampled[i].sep = nw.result.sep
                /\ nw.sampled[j].sep = nw.result.sep
    /\ \E k \in 1 .. Len(nw.sampled) :
          k \notin WithinSamples /\ nw.sampled[k].sep < nw.result.sep

(***************************************************************************)
(* Claims about the constructors.                                          *)
(***************************************************************************)
\* A component that is not an integer: a float, a string or None.
NonInteger(v) == v.type \in {"float", "str", "NoneType"}

\* C11: constructing a datetime or a timedelta fails with a TypeError and
\* produces no object exactly when some component is not an integer; with
\* integer components only it produces the object holding those components
\* (for a timedelta, their total in seconds).
C11_TypeErrorIffNonInteger ==
    ct.pc \in {"constructed", "TypeError"} =>
        /\ (ct.pc = "TypeError") <=> (\E i \in DOMAIN ct.args : NonInteger(ct.args[i]))
        /\ ct.pc = "TypeError" => ct.obj = NoObject
        /\ (ct.pc = "constructed" /\ ct.cls = "datetime") =>
              /\ ct.obj.year = ct.args[1] /\ ct.obj.month = ct.args[2]
              /\ ct.obj.day = ct.args[3] /\ ct.obj.hour = ct.args[4]
              /\ ct.obj.minute = ct.args[5] /\ ct.obj.second = ct.args[6]
        /\ (ct.pc = "constructed" /\ ct.cls = "timedelta") =>
              ct.obj.total_seconds =
                  ct.args[1].val * 86400 + ct.args[2].val * 3600
                      + ct.args[3].val * 60 + ct.args[4].val

\* A datetime refused because of its last component alone, a float.
C11_Witness ==
    /\ ct.pc = "TypeError" /\ ct.cls = "datetime"
    /\ ct.args[6].type = "float"
    /\ \A i \in 1 .. 5 : ct.args[i].type = "int"

(***************************************************************************)
(* Claims about the projectors.                                            *)
(***************************************************************************)
\* The elements at which the projectors were called.
PjX == psecentralcoords_poly(pj.x_coeffs, pj.t)
PjY == psecentralcoords_poly(pj.y_coeffs, pj.t)
PjD == psecentralcoords_poly(pj.d_coeffs, pj.t)

\* Bsq = 1 - X^2 - (omega*Y)^2 < 0 with omega = 1/sqrt(1 - e^2 cos^2(d)),
\* that is X^2 (1 - e^2 cos^2 d) + Y^2 > 1 - e^2 cos^2 d.
NoIntersection ==
    LET c == Nano - E_SQUARED * math_cos(PjD) * math_cos(PjD)
    IN  BigGt(BigAdd(BigMul(BigSq(PjX), BigOf(c)), BigMul(BigSq(PjY), BigOf(Nano))),
              BigMul(BigSq(Nano), BigOf(c)))

PjReturned == {r \in {pj.central, pj.center} : r.kind # "pending"}

\* C12: each projector returns the sentinel (None, None) exactly when Bsq is
\* negative and a pair of numbers whenever Bsq >= 0; for X = 2, Y = 2 it
\* returns the sentinel; and the two projectors decide this identically.
C12_SentinelIffNoIntersection ==
    pj.pc = "call" =>
        /\ \A r \in PjReturned :
              /\ NoIntersection => r.kind = "sentinel"
              /\ ~NoIntersection => r.kind = "pair"
              /\ (PjX = 2 * Nano /\ PjY = 2 * Nano) => r.kind = "sentinel"
        /\ (pj.central.kind # "pending" /\ pj.center.kind # "pending") =>
              pj.central.kind = pj.center.kind

\* C13: every pair returned has its longitude in (-180, 180] and its
\* latitude in (-90, 90] degrees, and a value already inside its range is
\* what the wrap returns.
C13_WrappedRanges ==
    pj.pc = "call" =>
        \A r \in PjReturned :
            r.kind = "pair" =>
                /\ -180 * MicroDeg < r.lon /\ r.lon <= 180 * MicroDeg
                /\ -90 * MicroDeg < r.lat /\ r.lat <= 90 * MicroDeg
                /\ (-180 * MicroDeg < r.lon_uncorrected
                        /\ r.lon_uncorrected <= 180 * MicroDeg) =>
                      r.lon = r.lon_uncorrected
                /\ (-90 * MicroDeg < r.lat_uncorrected
                        /\ r.lat_uncorrected <= 90 * MicroDeg) =>
                      r.lat = r.lat_uncorrected

(***************************************************************************)
(* Claims about gamma and its classification.                              *)
(***************************************************************************)
\* C14: central(g) is true iff |g| <= 0.9972 and exist(g) is true iff
\* |g| <= 1.56, inclusive at the boundary and for either sign of g.
C14_ClassifiedByLimits ==
    gm.pc = "gamma" =>
        /\ gm.central # NotCalled =>
              gm.central = Returned(Abs(gm.gamma) * 10000 <= 9972 * PerUnit)
        /\ gm.exist # NotCalled =>
              gm.exist = Returned(Abs(gm.gamma) * 100 <= 156 * PerUnit)

GmX == psegam_poly(gm.x_coeffs, gm.t_max)
GmY == psegam_poly(gm.y_coeffs, gm.t_max)

\* C15: gamma has the magnitude hypot(X(t), Y(t)) (to the nearest count)
\* and is negative exactly when Y(t) < 0; when Y(t) = 0 it is |X(t)|.
C15_GammaSignedDistance ==
    gm.pc = "gamma" =>
        /\ gm.gamma # 0 =>
              (2 * Abs(gm.gamma) - 1) * (2 * Abs(gm.gamma) - 1) <= 4 * (GmX * GmX + GmY * GmY)
        /\ 4 * (GmX * GmX + GmY * GmY) < (2 * Abs(gm.gamma) + 1) * (2 * Abs(gm.gamma) + 1)
        /\ (gm.gamma < 0) <=> (GmY < 0)
        /\ GmY = 0 => gm.gamma = Abs(GmX)

\* gamma was taken on the equator side of a moving axis: Y(t) = 0 with
\* X(t) < 0, and elsewhere south of it with X(t) # 0.
C15_Witness ==
    /\ gm.pc = "gamma" /\ gm.t_max # 0
    /\ \/ GmY = 0 /\ GmX < 0 /\ gm.gamma > 0
       \/ GmY < 0 /\ GmX # 0 /\ gm.gamma < -Abs(GmY)

(***************************************************************************)
(* Claims about the contact solver.                                        *)
(***************************************************************************)
\* The sign of D at a time of the call under way.
CsD(t) == penumbra_distance(t, cs.x_coeffs, cs.y_coeffs, cs.l_coeffs)

\* t is a root of D as far as the solver's looks can tell: D is zero at
\* the look t, or changes sign between the looks on either side of t.
CsRoot(t) ==
    IF t % Tick = 0 THEN CsD(t) = 0 ELSE CsD(t - 1) * CsD(t + 1) < 0

\* C16: when D has the same strict sign at both ends of [t_start, t_mid] or
\* at both ends of [t_mid, t_end], startendtime ends in an error and gives
\* no pair of times; and a time it does give is a root of D.
C16_NoContactReported ==
    cs.pc = "done" =>
        /\ (CsD(cs.t_start) * CsD(cs.t_mid) > 0 \/ CsD(cs.t_mid) * CsD(cs.t_end) > 0) =>
              cs.result = PairError("ValueError")
        /\ cs.result.raised = "none" =>
              CsRoot(cs.result.start_time) /\ CsRoot(cs.result.end_time)

\* The first solve found its root and the second one failed: D changes
\* sign over [t_start, t_mid] and is negative at both ends of [t_mid, t_end].
C16_Witness ==
    /\ cs.pc = "done" /\ cs.result.raised = "ValueError"
    /\ CsD(cs.t_start) * CsD(cs.t_mid) < 0
    /\ CsD(cs.t_mid) < 0 /\ CsD(cs.t_end) < 0

\* C17: when D has opposite signs at the ends of both brackets,
\* startendtime returns (start, end) with
\* t_start <= start <= t_mid <= end <= t_end, both roots of D; for
\* X = 0.1 t, Y = 0.9, L = 0.05 and the default brackets, start = -end.
C17_RootsInBrackets ==
    (/\ cs.pc = "done"
     /\ CsD(cs.t_start) * CsD(cs.t_mid) < 0
     /\ CsD(cs.t_mid) * CsD(cs.t_end) < 0) =>
        /\ cs.result.raised = "none"
        /\ cs.t_start <= cs.result.start_time /\ cs.result.start_time <= cs.t_mid
        /\ cs.t_mid <= cs.result.end_time /\ cs.result.end_time <= cs.t_end
        /\ CsRoot(cs.result.start_time) /\ CsRoot(cs.result.end_time)
        /\ (/\ <<cs.x_coeffs, cs.y_coeffs, cs.l_coeffs>> = SymmetricCase
            /\ <<cs.t_start, cs.t_mid, cs.t_end>> = DefaultBrackets) =>
              /\ cs.result.start_time = -cs.result.end_time
              /\ cs.result.end_time > 0

\* The symmetric case was solved with the default brackets.
C17_Witness ==
    /\ cs.pc = "done" /\ cs.result.raised = "none"
    /\ <<cs.x_coeffs, cs.y_coeffs, cs.l_coeffs>> = SymmetricCase
    /\ <<cs.t_start, cs.t_mid, cs.t_end>> = DefaultBrackets
    /\ cs.result.start_time < 0

(***************************************************************************)
(* Claims about the contacts and the path sweep of main.                   *)
(***************************************************************************)
\* C18: when the penumbral and the umbral solve both succeed, the
\* penumbral start is earlier than the umbral start, both are earlier than
\* the maximum, and the maximum lies in [-0.5 h, 0.5 h) of the reference
\* hour.
C18_ContactsBeforeMaximum ==
    (mn.pen.raised = "none" /\ mn.umb.raised = "none") =>
        /\ mn.pen.start_time < mn.umb.start_time
        /\ mn.umb.start_time < mn.decimal_time_tt
        /\ mn.pen.start_time < mn.decimal_time_tt
        /\ -(Hours(1) \div 2) <= mn.decimal_time_tt
        /\ mn.decimal_time_tt < Hours(1) \div 2

\* C19: every time at which the sweep calls coords lies between the
\* penumbral first and last contact, and consecutive times are 60 seconds
\* apart.
C19_SamplesBetweenContacts ==
    \A i \in 1..Len(mn.samples) :
        /\ mn.pen.start_time <= mn.samples[i].t
        /\ mn.samples[i].t <= mn.pen.end_time
        /\ i > 1 => mn.samples[i].t - mn.samples[i - 1].t = step_hours

IsPair(s) == s.kind = "pair"
\* The times of the samples at which coords returned a pair.
PairTimes ==
    LET kept == SelectSeq(mn.samples, IsPair)
    IN  [i \in 1..Len(kept) |-> kept[i].t]

C21_UnwrappedDifference ==
    hu.pc = "done" =>
        /\ (hu.dH - (hu.H1 - hu.H0)) % 360 = 0
        /\ -180 < hu.dH /\ hu.dH <= 180
        /\ hu.H1 - hu.H0 = 180 => hu.dH = 180
        /\ (hu.H0 = 359 /\ hu.H1 = 2) => (hu.dH = 3 /\ hu.mu > 0)

\* The fit returned the coefficients of the cubic, constant first.
Recovered(fit, cubic) ==
    /\ fit.den # 0
    /\ \A k \in 1..4 : fit.num[k] = cubic[k] * fit.den

\* C22: the degree-3 fit of the five exact samples of a cubic at
\* t = -2, -1, 0, 1, 2 returns its coefficients (c0, c1, c2, c3).
C22_FitRecoversCubic ==
    /\ ft.pc \in {"element", "done"} => Recovered(ft.coeffs, ft.cubic)
    /\ ft.pc = "done" =>
          (Recovered(ft.hour_angle, ft.cubic) /\ ft.mu = ft.cubic[2] * ft.hour_angle.den)

\* C23: a contact solve that finds no sign change in a bracket does not end
\* the run: the contact is reported absent and the rest of the computation
\* goes on.
C23_NoContactRecoverable ==
    (mn.pen.raised = "ValueError" \/ mn.umb.raised = "ValueError") => mn.pc # "raised"

(***************************************************************************)
(* Claims about the reference hour.                                        *)
(***************************************************************************)
\* C24: the reference instant is a whole hour, the hour of the maximum
\* when its minute is below 30 and the next hour otherwise, so that the
\* maximum minus the reference is in [-1800 s, 1800 s); this holds across
\* day, month and year ends and across the cutover.
C24_ReferenceIsNearestHour ==
    rf.pc = "done" =>
        /\ Canonical(rf.dt_max_rounded)
        /\ rf.dt_max_rounded.minute = 0 /\ rf.dt_max_rounded.second = 0
        /\ rf.total_seconds =
              rf.dt_max_tt.minute * 60 + rf.dt_max_tt.second
                - (IF rf.dt_max_tt.minute >= 30 THEN 3600 ELSE 0)
        /\ -1800 <= rf.total_seconds /\ rf.total_seconds < 1800
        /\ rf.dt_max_tt.minute < 30 =>
              rf.dt_max_rounded = [rf.dt_max_tt EXCEPT !.minute = 0, !.second = 0]
        /\ rf.dt_max_tt.minute >= 30 => dt_gt(rf.dt_max_rounded, rf.dt_max_tt)

\* Rounding up went over the cutover: from the last hour of 4 October 1582
\* to the first instant of 15 October.
C24_Witness ==
    /\ rf.pc = "done"
    /\ rf.dt_max_tt = datetime(1582, 10, 4, 23, 45, 10)
    /\ rf.dt_max_rounded = datetime(1582, 10, 15, 0, 0, 0)
    /\ rf.total_seconds = -890

(***************************************************************************)
(* Claims about the step of the search and about its refinement window.    *)
(***************************************************************************)
\* No coarse sample taken so far was within its threshold.
NoCandidateYet ==
    \A i \in 1..Len(fd.coarse) : fd.coarse[i].sep > fd.coarse[i].thr

C26_RefinementYieldsMaximum ==
    [][TookCandidate =>
          /\ add_seconds(fd'.start_estimate, 60) = fd.current_time
          /\ dt_le(fd.current_time, fd'.end_estimate)
          /\ fd'.pc = "Scanning"
          /\ Len(fd'.printed) = Len(fd.printed) + 1]_vars

(***************************************************************************)
(* Claims about the calendar: units, counts, leap years, operands.         *)
(***************************************************************************)
\* C27: from a canonical instant, add_minute gives what 60 add_second
\* give, add_hour what 3600 give and add_day what 86400 give, and likewise
\* sub_minute, sub_hour and sub_day with sub_second.
C27_UnitIsSoManySeconds ==
    eq.pc = "done" =>
        /\ eq.applied = SecondsIn(eq.unit)
        /\ eq.by_seconds = eq.once

\* A day was taken back over the cutover, one second at a time.
C27_Witness ==
    /\ eq.pc = "done" /\ eq.unit = "day" /\ ~ eq.adding
    /\ eq.start = datetime(1582, 10, 15, 23, 59, 59)
    /\ eq.once = datetime(1582, 10, 4, 23, 59, 59)
    /\ eq.by_seconds = eq.once
    /\ eq.applied = 86400

\* C28: a counted step called with a count n <= 0 leaves the instant as it
\* was, whereas datetime + timedelta with a negative duration gives an
\* earlier instant, from which as many seconds forward lead back.
C28_NonPositiveCountIsNoStep ==
    cn.pc = "done" =>
        /\ (cn.method \in CountedMethods /\ cn.n <= 0) => cn.after = cn.self
        /\ (cn.method = "__add__" /\ cn.n < 0) =>
              /\ dt_lt(cn.after, cn.self)
              /\ add_seconds(cn.after, -cn.n) = cn.self
              /\ cn.after = sub_seconds(cn.self, -cn.n)

\* add_days(-2) was called on the first day after the cutover and left it
\* there.
C28_Witness ==
    /\ cn.pc = "done" /\ cn.method = "add_days" /\ cn.n = -2
    /\ cn.self = datetime(1582, 10, 15, 0, 0, 0)
    /\ cn.after = cn.self

\* The Gregorian leap rule.
GregorianLeap(year) == year % 4 = 0 /\ (year % 100 # 0 \/ year % 400 = 0)

\* C29: in every year, before the cutover too, February has 29 days iff
\* the year is a leap year of the Gregorian rule: the day after 28 February
\* is 29 February in those years and 1 March in the others, the day before
\* 1 March likewise, and the day after 1500-02-28 is 1500-03-01.
C29_GregorianLeapEveryYear ==
    lp.pc = "done" =>
        /\ lp.february = IF GregorianLeap(lp.date.year) THEN 29 ELSE 28
        /\ (lp.adding /\ lp.date.month = 2 /\ lp.date.day = 28) =>
              <<lp.after.year, lp.after.month, lp.after.day>> =
                  IF GregorianLeap(lp.date.year) THEN <<lp.date.year, 2, 29>>
                  ELSE <<lp.date.year, 3, 1>>
        /\ (~ lp.adding /\ lp.date.month = 3 /\ lp.date.day = 1) =>
              <<lp.after.year, lp.after.month, lp.after.day>> =
                  IF GregorianLeap(lp.date.year) THEN <<lp.date.year, 2, 29>>
                  ELSE <<lp.date.year, 2, 28>>
        /\ (lp.adding /\ lp.date = datetime(1500, 2, 28, 0, 0, 0)) =>
              lp.after = datetime(1500, 3, 1, 0, 0, 0)

\* One day was added to 1500-02-28, a leap year of the Julian rule only.
C29_Witness ==
    /\ lp.pc = "done" /\ lp.adding
    /\ lp.date = datetime(1500, 2, 28, 0, 0, 0)
    /\ lp.after = datetime(1500, 3, 1, 0, 0, 0)
    /\ lp.february = 28

\* C30: no operator and no search changes an instant of its caller:
\* self + td, self - td and self - other leave both operands as they were,
\* sefinder leaves start_time and end_time as they were, and senarrow
\* leaves the two ends of its window as they were, also when one object is
\* passed for both.
C30_CallerInstantsUnchanged ==
    al.pc # "idle" =>
        /\ al.heap[1] = al.before[1]
        /\ al.heap[2] = al.before[2]
        /\ al.deltas[1] = al.before_delta

\* 1582-10-15T00:00:01 - 1582-10-04T23:59:58 has returned three seconds,
\* counted on a copy that was moved over the cutover.
C30_Witness ==
    /\ al.pc = "done" /\ al.op = "sub_datetime"
    /\ al.self # al.other
    /\ al.heap[al.self] = datetime(1582, 10, 15, 0, 0, 1)
    /\ al.heap[al.other] = datetime(1582, 10, 4, 23, 59, 58)
    /\ al.deltas[al.result] = 3
    /\ al.heap[al.a] = al.heap[al.self]
    /\ al.heap = <<al.before[1], al.before[2]>> \o <<al.heap[al.a], al.heap[al.b]>>

=============================================================================
